---- MODULE Spec2Model ----
(***************************************************************************)
(* probe-run: the target lifecycle controller (src/src/main.rs), the       *)
(* backtrace printing policy (src/src/backtrace/mod.rs) and the stack      *)
(* canary (src/src/canary.rs) as a state machine.                          *)
(*                                                                         *)
(* Spec        one run of run_target_program from the reset-halt that      *)
(*             samples SP/PC up to the returned exit code, interleaved     *)
(*             with the target, the SIGINT handler and the GDB worker.     *)
(* SpecCanary  Canary::prepare, install and measure on byte-level RAM for   *)
(*             a bounded set of stack regions and firmware writes.         *)
(* SpecCanaryAny  the same steps from stack regions of any alignment.      *)
(* SpecDecode  decode_and_print_defmt_logs on one received buffer.         *)
(* SpecElf     the ELF is parsed by from_elf, then the probe is attached   *)
(*             and the firmware flashed.                                   *)
(* SpecStart   start_program and set_rtt_to_blocking, one probe call per   *)
(*             step, with the firmware running in between.                 *)
(* SpecDrain   the poll loop reads the ring buffer of a firmware that      *)
(*             logs and halts.                                             *)
(* SpecLog     extract_and_print_logs forwards the bytes read from the     *)
(*             up-channel to the stream decoder or to stdout.              *)
(* SpecFair    the runs of Spec with a main thread that keeps stepping.    *)
(* SpecPrint   the defmt-print tool (src/src/bin/defmt-print.rs) reads     *)
(*             stdin and hands its buffer to decode_loop (src/src/lib.rs). *)
(***************************************************************************)
EXTENDS Integers, Sequences, FiniteSets, TLC

VARIABLES
    pc,                   \* position of the main thread
    result,               \* "none" | "ok" (Ok(exit code) returned) | "err" (Err returned)
    exit_code,            \* value returned by run_target_program, -1 before it returns
    opts,                 \* cli::Opts fields read by the controller
    elf_rtt,              \* elf.rtt_buffer_address().is_some()
    uses_heap,            \* elf.program_uses_heap()
    stack_info,           \* target_info.stack_info
    canary,               \* result of Canary::prepare / Canary::install
    core,                 \* "halted" | "running": the target core
    lock,                 \* "free" | "main": owner of the session mutex
    gdb,                  \* the GDB worker threads spawned: subset of {"start", "fault"}
    handlers,             \* the SIGINT actions currently registered with signal_hook
    exit,                 \* the AtomicBool of extract_and_print_logs
    exit2,                \* the AtomicBool of the gdb-on-fault branch
    was_halted,           \* local of the poll loop
    polls,                \* history: results of the last two core_halted() polls
    halted_due_to_signal, \* value returned by extract_and_print_logs
    canary_touched,       \* result of the canary measurement
    unwind,               \* local of backtrace::print: the unwinder's output
    printed,              \* pp::backtrace was called
    prelim,               \* history: unwind.outcome as the unwinder produced it
    outcome,              \* the Outcome held by run_target_program
    logged,               \* the Outcome last passed to Outcome::log
    ops,                  \* history: probe operations issued, polls listed once
    err,                  \* history: the error run_target_program returned, "none" without one
    bp_units,             \* core.available_breakpoint_units() as start_program read it, -1 outside
    attach,               \* setup_logging_channel: attach attempts made and the last result;
                          \* cleared when the poll loop is entered
    reports,              \* local history of backtrace::print: the reports logged after
                          \* the backtrace
    mem,                  \* target RAM: the addresses whose byte differs from CANARY_U8
    touched_address,      \* result of measure_subroutine::execute, 0 for None
    writes,               \* number of bytes the firmware wrote since the stack was painted
    stream,               \* the results decode() yields for the received bytes, then UnexpectedEof
    decode_calls,         \* number of decode() calls that returned an element of stream
    forwarded,            \* the frames passed to forward_to_logger, in order
    can_recover,          \* encoding.can_recover()
    elf_file,             \* the sections and symbols of the ELF file given to from_elf
    processed,            \* result of ProcessedElf::from_elf
    log_cfg,              \* extract_and_print_logs: the channel name, --no-flash, elf.defmt_table
    decoder,              \* decoder_and_encoding: "unset" | "none" | "some"
    rtt_bytes,            \* history: the bytes logging_channel.read returned, in read order
    received,             \* the bytes passed to stream_decoder.received, in order
    stdout,               \* the bytes passed to stdout.write_all, in order
    ring,                 \* the up-channel ring buffer: its size and the bytes not yet read
    fw_written,           \* history: the bytes the firmware wrote to the up-channel
    start_cfg,            \* start_program: the addresses the ELF gives and the breakpoint units
    breakpoints,          \* the addresses holding a hardware breakpoint
    target_words,         \* the words of target memory around the up-channel flags
    channel_flags,        \* local of set_rtt_to_blocking: the word read, -1 before the read
    word_writes,          \* history: the addresses the controller wrote a word to, in order
    stdin,                \* defmt-print: the bytes of standard input not yet read
    num_read,             \* defmt-print: n, the result of the last stdin.read, -1 before it
    frames,               \* defmt-print: the Vec<u8> handed to decode_loop
    log_defmt             \* defmt-print: the frames forwarded to logger::log_defmt, in order

vars == << pc, result, exit_code, opts, elf_rtt, uses_heap, stack_info, canary,
           core, lock, gdb, handlers, exit, exit2, was_halted, polls,
           halted_due_to_signal, canary_touched, unwind, printed, prelim,
           outcome, logged, ops, err, bp_units, attach, reports,
           mem, touched_address, writes, stream, decode_calls, forwarded, can_recover,
           elf_file, processed, log_cfg, decoder, rtt_bytes, received, stdout,
           ring, fw_written,
           start_cfg, breakpoints, target_words, channel_flags, word_writes,
           stdin, num_read, frames, log_defmt >>

\* the state of the canary subroutines, of the decoder loop and of the ELF parser
canary_vars == << mem, touched_address, writes >>
decode_vars == << stream, decode_calls, forwarded, can_recover >>
elf_vars == << elf_file, processed >>
\* the state of the log forwarding and of the instrumentation done by start_program
log_vars == << log_cfg, decoder, rtt_bytes, received, stdout, ring, fw_written >>
start_vars == << start_cfg, breakpoints, target_words, channel_flags, word_writes >>
\* the state of the defmt-print tool
print_vars == << stdin, num_read, frames, log_defmt >>

----------------------------------------------------------------------------
(* Bounds *)

\* largest --backtrace-limit value drawn
MaxLimit == 1
\* longest raw frame list the unwinder returns
MaxFrames == 2
\* largest stack size, in words, given to Canary::prepare under SpecCanary
MaxStackWords == 7
\* largest stack start, in words, given to Canary::prepare under SpecCanary
MaxStartWords == 3
\* most bytes the firmware writes between painting and measuring under SpecCanary
MaxWrites == 2
\* most results the stream decoder holds for one received buffer under SpecDecode
MaxStream == 3
\* length of read_buf under SpecLog, scaled down from the 1024 bytes of the source
MaxRead == 2
\* largest number of bytes read from the up-channel in one run under SpecLog
MaxLogBytes == 3
\* largest value of the up-channel flags word drawn under SpecStart
MaxFlags == 7

----------------------------------------------------------------------------
(* Program constants *)

\* signal_hook::consts::signal::SIGABRT
SIGABRT == 6
\* signal_hook::consts::signal::SIGINT
SIGINT == 2
\* setup_logging_channel: NUM_RETRIES
NUM_RETRIES == 10
\* paint_subroutine::SUBROUTINE.len()
PaintSubroutineSize == 12
\* measure_subroutine::SUBROUTINE.len()
MeasureSubroutineSize == 20
\* set_rtt_to_blocking: offset of the up-channel flags in the control block, the
\* mask of the mode bits and the blocking mode
OFFSET == 44
MODE_MASK == 3
MODE_BLOCK_IF_FULL == 2

Outcomes == {"Ok", "HardFault", "StackOverflow", "CtrlC"}
BacktraceOptions == {"auto", "never", "always"}

----------------------------------------------------------------------------
(* backtrace/mod.rs *)

\* mutant: Ctrl-C is reported as success
ExitCode_CtrlCIsSuccess(o) ==
    CASE o \in {"HardFault", "StackOverflow"} -> SIGABRT
      [] o = "CtrlC" -> 0
      [] o = "Ok" -> 0

\* mutant: every outcome is reported as success
ExitCode_AlwaysSuccess(o) == 0

\* impl From<Outcome> for i32
OutcomeToExitCode(o) ==
    CASE o \in {"HardFault", "StackOverflow"} -> SIGABRT
      [] o = "CtrlC" -> SIGINT
      [] o = "Ok" -> 0

\* Settings::panic_present
PanicPresent(stack_overflow, sig) == stack_overflow \/ sig

\* contains_exception: any raw frame is an Exception frame
ContainsException(raw_frames) ==
    \E i \in 1..Len(raw_frames) : raw_frames[i] = "Exception"

\* mutant: `auto` ignores exception frames
PrintBacktrace_NoException(bt, stack_overflow, sig, uw) ==
    CASE bt = "never" -> FALSE
      [] bt = "always" -> TRUE
      [] bt = "auto" -> \/ PanicPresent(stack_overflow, sig)
                        \/ uw.outcome = "StackOverflow"
                        \/ uw.corrupted

\* mutant: `never` is handled like `auto`
PrintBacktrace_NeverAsAuto(bt, stack_overflow, sig, uw) ==
    CASE bt = "always" -> TRUE
      [] bt \in {"never", "auto"} -> \/ PanicPresent(stack_overflow, sig)
                                     \/ uw.outcome = "StackOverflow"
                                     \/ uw.corrupted
                                     \/ ContainsException(uw.raw_frames)

\* the match on settings.backtrace
PrintBacktrace(bt, stack_overflow, sig, uw) ==
    CASE bt = "never" -> FALSE
      [] bt = "always" -> TRUE
      [] bt = "auto" -> \/ PanicPresent(stack_overflow, sig)
                        \/ uw.outcome = "StackOverflow"
                        \/ uw.corrupted
                        \/ ContainsException(uw.raw_frames)

\* mutant: a limit of 0 is not replaced
EffectiveLimit_NoSubstitute(limit, n_frames) == limit

\* `0` disables the limit: it is replaced by the number of frames
EffectiveLimit(limit, n_frames) == IF limit = 0 THEN n_frames ELSE limit

\* the guard of the call of pp::backtrace
CallsPP(print_backtrace, limit, n_frames) ==
    print_backtrace /\ EffectiveLimit(limit, n_frames) > 0

\* mutant: the reports do not depend on the backtrace being printed
Reports_Unguarded(emitted, uw) ==
    (IF uw.corrupted THEN {"corrupted"} ELSE {})
        \cup (IF uw.processing_error THEN {"processing_error"} ELSE {})

\* the log::warn! and log::error! inside `if print_backtrace && limit > 0`
Reports(emitted, uw) ==
    IF emitted
    THEN (IF uw.corrupted THEN {"corrupted"} ELSE {})
             \cup (IF uw.processing_error THEN {"processing_error"} ELSE {})
    ELSE {}

\* the Ctrl-C override at the end of print
PrintOverride(sig, o) == IF sig /\ o = "Ok" THEN "CtrlC" ELSE o

----------------------------------------------------------------------------
(* main.rs *)

\* mutant: Ctrl-C overrides every outcome
MainOverride_Unconditional(sig, o) == IF sig THEN "CtrlC" ELSE o

\* the Ctrl-C override of run_target_program
MainOverride(sig, o) == IF sig /\ o = "Ok" THEN "CtrlC" ELSE o

\* mutant: a missing canary is fatal whether or not --measure-stack was given
MeasureSetupFailed_AnyNone(measure_stack, canary_is_none) == canary_is_none

\* `if opts.measure_stack && canary.is_none()`
MeasureSetupFailed(measure_stack, canary_is_none) == measure_stack /\ canary_is_none

\* mutant: one halted poll ends the loop
PollBreak_SingleHalt(is_halted, was, using_gdb) == is_halted /\ ~using_gdb

\* mutant: halted polls never end the loop
PollBreak_Never(is_halted, was, using_gdb) == FALSE

\* the break at the end of a poll iteration
PollBreak(is_halted, was, using_gdb) == is_halted /\ was /\ ~using_gdb

\* mutant: a device without breakpoint units is always rejected
NoBreakpointsFatal_AlwaysFatal(units, rtt) == units = 0

\* start_program: zero breakpoint units and an RTT control block in the ELF
NoBreakpointsFatal(units, rtt) == units = 0 /\ rtt

\* what Rtt::attach_region and the lookup of up channel 0 can yield
AttachResults == {"Ok", "NoChannel", "ControlBlockNotFound", "Other"}

\* mutant: every attach error is retried
AttachStep_RetryAnyError(attempts, r) ==
    CASE r = "Ok" -> "channel"
      [] r = "NoChannel" -> "err_no_channel"
      [] r \in {"ControlBlockNotFound", "Other"} ->
            IF attempts + 1 < NUM_RETRIES THEN "retry" ELSE "err_not_found"

\* one iteration of `for _ in 0..NUM_RETRIES` with the result r of the
\* attempt, `attempts` attempts having been made before it; the loop falls
\* through to the final Err after its last iteration
AttachStep(attempts, r) ==
    CASE r = "Ok" -> "channel"
      [] r = "NoChannel" -> "err_no_channel"
      [] r = "Other" -> "err_other"
      [] r = "ControlBlockNotFound" ->
            IF attempts + 1 < NUM_RETRIES THEN "retry" ELSE "err_not_found"

\* what StreamDecoder::decode returns before UnexpectedEof: a frame or Malformed
DecodeResults == {"frame_a", "frame_b", "Malformed"}

\* mutant: a malformed frame is skipped whatever the encoding
DecodeArm_SkipAlways(r, encoding_can_recover) ==
    CASE r = "UnexpectedEof" -> "break"
      [] r = "Malformed" -> "continue"
      [] OTHER -> "forward"

\* decode_and_print_defmt_logs: the arm taken for one result of decode()
DecodeArm(r, encoding_can_recover) ==
    CASE r = "UnexpectedEof" -> "break"
      [] r = "Malformed" -> IF encoding_can_recover THEN "continue" ELSE "return_err"
      [] OTHER -> "forward"

\* mutant: the core is not halted after Ctrl-C
HaltOnSignal_Never(flag) == FALSE

\* `if exit.load(Ordering::Relaxed)` before core.halt
HaltOnSignal(flag) == flag

\* `let halted_due_to_signal = exit.load(Ordering::Relaxed)`
HaltedDueToSignal(flag) == flag

\* mutant: a stack overflow is handed to GDB as well
GdbOnFaultBranch_AnyFault(gdb_on_fault, o) ==
    gdb_on_fault /\ o \in {"HardFault", "StackOverflow"}

\* mutant: --gdb-on-fault starts GDB whatever the outcome
GdbOnFaultBranch_AnyOutcome(gdb_on_fault, o) == gdb_on_fault

\* the condition of the gdb-on-fault branch
GdbOnFaultBranch(gdb_on_fault, o) == gdb_on_fault /\ o = "HardFault"

----------------------------------------------------------------------------
(* elf.rs *)

\* what from_elf looks at in an ELF file
ElfFiles ==
    [ parse : BOOLEAN,
      text : BOOLEAN,
      defmt : {"none", "table", "err"},
      vector_table : {"missing", "unaligned", "short", "ok"},
      debug_frame : {"missing", "unreadable", "present"},
      main : BOOLEAN ]

\* mutant: a missing .debug_frame section is tolerated
FromElf_DebugFrameOptional(f) ==
    IF ~f.parse THEN "parse_error"
    ELSE IF ~f.text THEN "text_missing"
    ELSE IF f.defmt = "err" THEN "defmt_error"
    ELSE IF f.vector_table # "ok" THEN "vector_table_" \o f.vector_table
    ELSE IF f.debug_frame = "unreadable" THEN "debug_frame_unreadable"
    ELSE IF ~f.main THEN "main_not_found"
    ELSE "ok"

\* ProcessedElf::from_elf: "ok", or the first error in the order of its `?`
FromElf(f) ==
    IF ~f.parse THEN "parse_error"
    ELSE IF ~f.text THEN "text_missing"
    ELSE IF f.defmt = "err" THEN "defmt_error"
    ELSE IF f.vector_table # "ok" THEN "vector_table_" \o f.vector_table
    ELSE IF f.debug_frame = "unreadable" THEN "debug_frame_unreadable"
    ELSE IF f.debug_frame = "missing" THEN "debug_frame_not_found"
    ELSE IF ~f.main THEN "main_not_found"
    ELSE "ok"

----------------------------------------------------------------------------
(* canary.rs *)

NoStackInfo == [known |-> FALSE, start |-> 0, end |-> 0, data_below_stack |-> FALSE]

CanaryOf(status, addr, size, dbs) ==
    [status |-> status, addr |-> addr, size |-> size, data_below_stack |-> dbs]

NoCanary == CanaryOf("none", 0, 0, FALSE)

\* mutant: only the paint subroutine has to fit
AssertSubroutines_PaintOnly(stack_addr, stack_size) ==
    IF stack_addr % 4 # 0 \/ stack_size % 4 # 0
    THEN "panic"
    ELSE IF stack_size < PaintSubroutineSize THEN "none" ELSE "some"

\* mutant: the alignment of the stack region is not asserted
AssertSubroutines_Unaligned(stack_addr, stack_size) ==
    IF (stack_size < PaintSubroutineSize) \/ (stack_size < MeasureSubroutineSize)
    THEN "none"
    ELSE "some"

\* Canary::assert_subroutines: "panic" when an assertion fails, else
\* whether both subroutines fit in the stack
AssertSubroutines(stack_addr, stack_size) ==
    IF \/ stack_addr % 4 # 0
       \/ stack_size % 4 # 0
       \/ PaintSubroutineSize % 4 # 0
       \/ MeasureSubroutineSize % 4 # 0
    THEN "panic"
    ELSE IF (stack_size < PaintSubroutineSize) \/ (stack_size < MeasureSubroutineSize)
         THEN "none"
         ELSE "some"

\* Canary::prepare
Prepare(heap, si) ==
    IF ~si.known THEN NoCanary
    ELSE IF heap THEN NoCanary
    ELSE LET stack_addr == si.start
             stack_size == si.end - stack_addr
             fit == AssertSubroutines(stack_addr, stack_size)
         IN  IF fit = "some"
             THEN CanaryOf("some", stack_addr, stack_size, si.data_below_stack)
             ELSE CanaryOf(fit, 0, 0, FALSE)

\* mutant: a likely overflow is reported only with data below the stack
Measure_OnlyWithDataBelow(cn, initial_sp, touched) ==
    LET min_stack_usage == IF touched = 0 THEN 0 ELSE initial_sp - touched
    IN  min_stack_usage * 100 > 90 * cn.size /\ cn.data_below_stack

\* Canary::measure: touched = 0 stands for None; returns pct > 90.0
Measure(cn, initial_sp, touched) ==
    LET min_stack_usage == IF touched = 0 THEN 0 ELSE initial_sp - touched
    IN  min_stack_usage * 100 > 90 * cn.size

\* the addresses measure_subroutine::execute can return for a canary
TouchedAddresses(cn) == {0} \cup (cn.addr .. (cn.addr + cn.size - 1))

\* Target RAM is the set of the addresses whose byte is not CANARY_U8. No byte
\* of either SUBROUTINE array is 0xAA.

\* the byte addresses of target RAM: one word more than the highest stack end
Ram == 0 .. (4 * (MaxStartWords + MaxStackWords) + 7)

Lowest(S) == CHOOSE a \in S : \A b \in S : a <= b

\* core.write_8(addr, bytes) with bytes that are all, or none, CANARY_U8
WriteCanary(m, addr, len) == m \ (addr .. (addr + len - 1))
WriteCode(m, addr, len) == m \cup ((addr .. (addr + len - 1)) \cap Ram)

\* the paint subroutine: cmp r0, r1; bhi exit; stmia r0!, {r2}; b paint
RECURSIVE PaintLoop(_, _, _)
PaintLoop(m, r0, r1) ==
    IF r0 > r1 THEN m ELSE PaintLoop(WriteCanary(m, r0, 4), r0 + 4, r1)

\* execute_subroutine with the paint subroutine: r0 = low_addr + subroutine
\* size, r1 = low_addr + stack_size
ExecutePaint(m, low_addr, stack_size) ==
    PaintLoop(WriteCode(m, low_addr, PaintSubroutineSize),
              low_addr + PaintSubroutineSize, low_addr + stack_size)

\* mutant: the paint subroutine is left in the stack
PaintExecute_NoOverwrite(m, low_addr, stack_size) ==
    ExecutePaint(m, low_addr, stack_size)

\* paint_subroutine::execute: run the subroutine, then overwrite it
PaintExecute(m, low_addr, stack_size) ==
    WriteCanary(ExecutePaint(m, low_addr, stack_size), low_addr, PaintSubroutineSize)

\* the measure subroutine: cmp r0, r1; bcs none; ldr r3, [r0]; cmp r3, r2;
\* bne found; adds r0, #4; b measure. The result is r0, 0 when nothing is found
RECURSIVE MeasureLoop(_, _, _)
MeasureLoop(m, r0, r1) ==
    IF r0 >= r1 THEN 0
    ELSE IF m \cap (r0 .. (r0 + 3)) # {} THEN r0
    ELSE MeasureLoop(m, r0 + 4, r1)

\* measure_subroutine::search_with_probe, 0 for None
SearchWithProbe(m, low_addr) ==
    LET touched == m \cap (low_addr .. (low_addr + MeasureSubroutineSize - 1))
    IN  IF touched = {} THEN 0 ELSE Lowest(touched)

\* mutant: the address of the mismatching word is returned as it is
GetResult_WordAddress(m, r0) == r0

\* measure_subroutine::get_result, 0 for None
GetResult(m, r0) ==
    IF r0 = 0 THEN 0 ELSE Lowest(m \cap (r0 .. (r0 + 3)))

\* mutant: the subroutine is placed without the search through the probe
MeasureExecute_NoHostScan(m, low_addr, stack_size) ==
    LET m1 == WriteCode(m, low_addr, MeasureSubroutineSize)
        r0 == MeasureLoop(m1, low_addr + MeasureSubroutineSize, low_addr + stack_size)
        found == SearchWithProbe(m, low_addr)
    IN  [result |-> (IF found # 0 THEN found ELSE GetResult(m1, r0)), mem |-> m1]

\* measure_subroutine::execute: the result and the RAM it leaves
MeasureExecute(m, low_addr, stack_size) ==
    LET found == SearchWithProbe(m, low_addr)
        m1 == WriteCode(m, low_addr, MeasureSubroutineSize)
        r0 == MeasureLoop(m1, low_addr + MeasureSubroutineSize, low_addr + stack_size)
    IN  IF found # 0
        THEN [result |-> found, mem |-> m]
        ELSE [result |-> GetResult(m1, r0), mem |-> m1]

----------------------------------------------------------------------------
(* The unwinder and the symbolicator *)

NoUnwind ==
    [raw_frames |-> << >>, corrupted |-> FALSE, processing_error |-> FALSE,
     outcome |-> "none"]

RECURSIVE SeqsUpTo(_, _)
SeqsUpTo(S, n) ==
    IF n = 0 THEN { << >> }
    ELSE LET shorter == SeqsUpTo(S, n - 1)
         IN  shorter \cup { Append(s, x) : s \in { t \in shorter : Len(t) = n - 1 }, x \in S }

\* frame 0 is seeded at PC, so a stack has at least one frame
RawFrameLists == { s \in SeqsUpTo({"Function", "Exception"}, MaxFrames) : Len(s) >= 1 }

\* the preliminary outcome: HardFault iff PC is inside the hard-fault
\* handler, StackOverflow iff the canary was touched with data below the
\* stack, else Ok
UnwindOutcomes(pc_in_hard_fault, touched, dbs) ==
    LET so == touched /\ dbs
    IN  (IF so THEN {"StackOverflow"} ELSE {})
        \cup (IF pc_in_hard_fault THEN {"HardFault"} ELSE {})
        \cup (IF ~so /\ ~pc_in_hard_fault THEN {"Ok"} ELSE {})

\* unwind::target
UnwindTarget(touched, dbs) ==
    { [raw_frames |-> f, corrupted |-> c, processing_error |-> e, outcome |-> o] :
        f \in RawFrameLists, c \in BOOLEAN, e \in BOOLEAN,
        o \in UNION { UnwindOutcomes(h, touched, dbs) : h \in BOOLEAN } }

\* symbolicate::frames: every raw frame yields at least one frame
SymbolicatedLen(raw_frames) == Len(raw_frames)

----------------------------------------------------------------------------
(* Helpers of the history variables *)

Range(s) == { s[i] : i \in 1..Len(s) }

Issue(o, op) == Append(o, op)

IssueOnce(o, op) == IF op \in Range(o) THEN o ELSE Append(o, op)

LastTwo(s, x) == IF Len(s) = 0 THEN << x >> ELSE << s[Len(s)], x >>

----------------------------------------------------------------------------
(* Inputs *)

OptsSet ==
    [ backtrace : BacktraceOptions,
      backtrace_limit : 0..MaxLimit,
      measure_stack : BOOLEAN,
      gdb_on_start : BOOLEAN,
      gdb_on_fault : BOOLEAN ]

StackInfoOf(start, size, dbs) ==
    [known |-> TRUE, start |-> start, end |-> start + size, data_below_stack |-> dbs]

\* stack regions of the modelled runs: 16 bytes (too small) and 24 bytes
RunStackInfos ==
    {NoStackInfo, StackInfoOf(8, 16, FALSE)} \cup { StackInfoOf(8, 24, d) : d \in BOOLEAN }

\* stack regions given to Canary::prepare under SpecCanary; start and size
\* are 4-byte aligned, as prepare asserts
CanaryStackInfos ==
    {NoStackInfo} \cup
    { StackInfoOf(4 * a, 4 * w, d) : a \in 1..MaxStartWords, w \in 0..MaxStackWords, d \in BOOLEAN }

\* stack regions of any byte alignment, as target_info may hand them to prepare
AnyStackInfos ==
    {NoStackInfo} \cup
    { StackInfoOf(a, n, d) : a \in 4..(4 * MaxStartWords), n \in 0..(4 * MaxStackWords),
                             d \in BOOLEAN }

TerminalPcs == {"done", "error", "killed", "panicked", "cn_prepared"}

\* positions whose step holds a `?` on a probe, channel or I/O result
FalliblePcs ==
    {"get_stack", "start_program", "extract_setup", "check_defmt", "loop_read",
     "loop_halt", "after_loop", "measure", "print_decide", "final_reset"}

----------------------------------------------------------------------------
(* Initial states *)

NoAttach == [attempts |-> 0, last |-> "none"]

NoElfFile == [parse |-> FALSE]

\* the canary memory, the decoder and the ELF parser at rest
InitCanaryVars == mem = {} /\ touched_address = 0 /\ writes = 0
InitDecodeVars ==
    stream = << >> /\ decode_calls = 0 /\ forwarded = << >> /\ can_recover = FALSE
InitElfVars == elf_file = NoElfFile /\ processed = "none"

NoRing == [size |-> 0, data |-> << >>]

NoLogCfg == [defmt_channel |-> FALSE, no_flash |-> FALSE, defmt_table |-> FALSE]

NoStartCfg == [units |-> 0, main |-> 0, hard_fault |-> 0, rtt |-> 0]

\* the log forwarding and the instrumentation of start_program at rest
InitLogVars ==
    /\ log_cfg = NoLogCfg
    /\ decoder = "unset"
    /\ rtt_bytes = << >>
    /\ received = << >>
    /\ stdout = << >>
    /\ ring = NoRing
    /\ fw_written = << >>
InitStartVars ==
    /\ start_cfg = NoStartCfg
    /\ breakpoints = {}
    /\ target_words = << >>
    /\ channel_flags = -1
    /\ word_writes = << >>

\* the defmt-print tool at rest
InitPrintVars ==
    /\ stdin = << >>
    /\ num_read = -1
    /\ frames = << >>
    /\ log_defmt = << >>

InitLocals ==
    /\ result = "none"
    /\ exit_code = -1
    /\ canary = NoCanary
    /\ lock = "free"
    /\ gdb = {}
    /\ handlers = {}
    /\ exit = FALSE
    /\ exit2 = FALSE
    /\ was_halted = FALSE
    /\ polls = << >>
    /\ halted_due_to_signal = FALSE
    /\ canary_touched = FALSE
    /\ unwind = NoUnwind
    /\ printed = FALSE
    /\ prelim = "none"
    /\ outcome = "none"
    /\ logged = "none"
    /\ ops = << >>
    /\ err = "none"
    /\ bp_units = -1
    /\ attach = NoAttach
    /\ reports = {}

\* run_target_program after attach and flash, before get_stack_start_and_reset_handler
Init ==
    /\ pc = "get_stack"
    /\ opts \in OptsSet
    /\ elf_rtt \in BOOLEAN
    /\ uses_heap \in BOOLEAN
    /\ stack_info \in RunStackInfos
    /\ core \in {"halted", "running"}
    /\ InitLocals
    /\ InitCanaryVars
    /\ InitDecodeVars
    /\ InitElfVars
    /\ InitLogVars
    /\ InitStartVars
    /\ InitPrintVars

----------------------------------------------------------------------------
(* The environment: target, SIGINT, GDB worker *)

\* the firmware reaches a bkpt or a hardware breakpoint
TargetHalts ==
    /\ pc \notin TerminalPcs
    /\ core = "running"
    /\ core' = "halted"
    /\ UNCHANGED << err, bp_units, attach, reports >>
    /\ UNCHANGED << canary_vars, decode_vars, elf_vars, log_vars, start_vars, print_vars >>
    /\ UNCHANGED << pc, result, exit_code, opts, elf_rtt, uses_heap, stack_info,
                    canary, lock, gdb, handlers, exit, exit2, was_halted, polls,
                    halted_due_to_signal, canary_touched, unwind, printed,
                    prelim, outcome, logged, ops >>

\* the GDB worker resumes or halts the core between two holds of the session lock
GdbCommand ==
    /\ pc \notin TerminalPcs
    /\ gdb # {}
    /\ lock = "free"
    /\ core' = IF core = "halted" THEN "running" ELSE "halted"
    /\ UNCHANGED << err, bp_units, attach, reports >>
    /\ UNCHANGED << canary_vars, decode_vars, elf_vars, log_vars, start_vars, print_vars >>
    /\ UNCHANGED << pc, result, exit_code, opts, elf_rtt, uses_heap, stack_info,
                    canary, lock, gdb, handlers, exit, exit2, was_halted, polls,
                    halted_due_to_signal, canary_touched, unwind, printed,
                    prelim, outcome, logged, ops >>

\* SIGINT arrives: flag::register sets its flag, register_conditional_default
\* terminates the process when its flag is already set
Sigint ==
    /\ pc \notin TerminalPcs
    /\ handlers # {}
    /\ IF "cond_default" \in handlers /\ exit
       THEN /\ pc' = "killed"
            /\ UNCHANGED << exit, exit2 >>
       ELSE /\ exit' = (exit \/ "flag" \in handlers)
            /\ exit2' = (exit2 \/ "flag2" \in handlers)
            /\ pc' = pc
    /\ UNCHANGED << err, bp_units, attach, reports >>
    /\ UNCHANGED << canary_vars, decode_vars, elf_vars, log_vars, start_vars, print_vars >>
    /\ UNCHANGED << result, exit_code, opts, elf_rtt, uses_heap, stack_info,
                    canary, core, lock, gdb, handlers, was_halted, polls,
                    halted_due_to_signal, canary_touched, unwind, printed,
                    prelim, outcome, logged, ops >>

\* a `?` returns the error to the caller
Fail ==
    /\ pc \in FalliblePcs
    /\ pc' = "error"
    /\ result' = "err"
    /\ err' = "probe"
    /\ lock' = "free"
    /\ UNCHANGED << bp_units, attach, reports >>
    /\ UNCHANGED << canary_vars, decode_vars, elf_vars, log_vars, start_vars, print_vars >>
    /\ UNCHANGED << exit_code, opts, elf_rtt, uses_heap, stack_info, canary,
                    core, gdb, handlers, exit, exit2, was_halted, polls,
                    halted_due_to_signal, canary_touched, unwind, printed,
                    prelim, outcome, logged, ops >>

----------------------------------------------------------------------------
(* run_target_program up to the poll loop *)

\* get_stack_start_and_reset_handler: reset_and_halt, read SP and PC, reset
GetStackStart ==
    /\ pc = "get_stack"
    /\ core' = "running"
    /\ ops' = Issue(Issue(ops, "reset_and_halt"), "reset")
    /\ pc' = "install"
    /\ UNCHANGED << err, bp_units, attach, reports >>
    /\ UNCHANGED << canary_vars, decode_vars, elf_vars, log_vars, start_vars, print_vars >>
    /\ UNCHANGED << result, exit_code, opts, elf_rtt, uses_heap, stack_info,
                    canary, lock, gdb, handlers, exit, exit2, was_halted, polls,
                    halted_due_to_signal, canary_touched, unwind, printed,
                    prelim, outcome, logged >>

\* Canary::install: prepare, then paint the stack
Install ==
    /\ pc = "install"
    /\ LET cn == Prepare(uses_heap, stack_info)
       IN  /\ canary' = cn
           /\ CASE cn.status = "panic" ->
                     /\ pc' = "panicked"
                     /\ UNCHANGED << core, ops, result, err >>
                [] cn.status = "none" ->
                     /\ pc' = "check_measure"
                     /\ UNCHANGED << core, ops, result, err >>
                [] cn.status = "some" ->
                     \/ /\ pc' = "check_measure"
                        /\ core' = "halted"
                        /\ ops' = Issue(ops, "paint")
                        /\ UNCHANGED << result, err >>
                     \/ /\ pc' = "error"
                        /\ result' = "err"
                        /\ err' = "probe"
                        /\ UNCHANGED << core, ops >>
    /\ UNCHANGED << bp_units, attach, reports >>
    /\ UNCHANGED << canary_vars, decode_vars, elf_vars, log_vars, start_vars, print_vars >>
    /\ UNCHANGED << exit_code, opts, elf_rtt, uses_heap, stack_info, lock, gdb,
                    handlers, exit, exit2, was_halted, polls,
                    halted_due_to_signal, canary_touched, unwind, printed,
                    prelim, outcome, logged >>

\* bail!("failed to set up stack measurement")
CheckMeasure ==
    /\ pc = "check_measure"
    /\ IF MeasureSetupFailed(opts.measure_stack, canary.status = "none")
       THEN pc' = "error" /\ result' = "err" /\ err' = "measure_stack"
       ELSE pc' = "start_program" /\ UNCHANGED << result, err >>
    /\ UNCHANGED << bp_units, attach, reports >>
    /\ UNCHANGED << canary_vars, decode_vars, elf_vars, log_vars, start_vars, print_vars >>
    /\ UNCHANGED << exit_code, opts, elf_rtt, uses_heap, stack_info, canary,
                    core, lock, gdb, handlers, exit, exit2, was_halted, polls,
                    halted_due_to_signal, canary_touched, unwind, printed,
                    prelim, outcome, logged, ops >>

\* start_program
StartProgram ==
    /\ pc = "start_program"
    /\ lock = "free"
    /\ \E units \in 0..1 :
         /\ bp_units' = units
         /\ IF NoBreakpointsFatal(units, elf_rtt)
            THEN /\ pc' = "error"
                 /\ result' = "err"
                 /\ err' = "no_hw_breakpoints"
                 /\ UNCHANGED << core, ops, gdb >>
               ELSE LET o1 == IF elf_rtt THEN Issue(ops, "set_rtt_to_blocking") ELSE ops
                     c1 == IF elf_rtt THEN "halted" ELSE core
                     o2 == Issue(o1, "set_hw_breakpoint")
                 IN  /\ pc' = "extract_setup"
                     /\ UNCHANGED << result, err >>
                     /\ IF opts.gdb_on_start
                        THEN /\ gdb' = gdb \cup {"start"}
                             /\ core' = c1
                             /\ ops' = o2
                        ELSE /\ gdb' = gdb
                             /\ core' = "running"
                             /\ ops' = Issue(o2, "run")
    /\ UNCHANGED << attach, reports >>
    /\ UNCHANGED << canary_vars, decode_vars, elf_vars, log_vars, start_vars, print_vars >>
    /\ UNCHANGED << exit_code, opts, elf_rtt, uses_heap, stack_info, canary,
                    lock, handlers, exit, exit2, was_halted, polls,
                    halted_due_to_signal, canary_touched, unwind, printed,
                    prelim, outcome, logged >>

\* extract_and_print_logs before its loop: register the SIGINT flag, lock
\* the session
ExtractSetup ==
    /\ pc = "extract_setup"
    /\ lock = "free"
    /\ lock' = "main"
    /\ handlers' = handlers \cup {"flag"}
    /\ bp_units' = -1
    /\ pc' = IF elf_rtt THEN "attach" ELSE "check_defmt"
    /\ UNCHANGED << err, attach, reports >>
    /\ UNCHANGED << canary_vars, decode_vars, elf_vars, log_vars, start_vars, print_vars >>
    /\ UNCHANGED << result, exit_code, opts, elf_rtt, uses_heap, stack_info,
                    canary, core, gdb, exit, exit2, was_halted, polls,
                    halted_due_to_signal, canary_touched, unwind, printed,
                    prelim, outcome, logged, ops >>

\* setup_logging_channel: one attempt of Rtt::attach_region
Attach ==
    /\ pc = "attach"
    /\ \E r \in AttachResults :
         LET step == AttachStep(attach.attempts, r)
         IN  /\ attach' = [attempts |-> attach.attempts + 1, last |-> r]
             /\ CASE step = "channel" ->
                       /\ pc' = "check_defmt"
                       /\ UNCHANGED << result, err, lock >>
                  [] step = "retry" ->
                       /\ pc' = "attach"
                       /\ UNCHANGED << result, err, lock >>
                  [] step = "err_no_channel" ->
                       /\ pc' = "error"
                       /\ result' = "err"
                       /\ err' = "no_up_channel"
                       /\ lock' = "free"
                  [] step = "err_other" ->
                       /\ pc' = "error"
                       /\ result' = "err"
                       /\ err' = "attach"
                       /\ lock' = "free"
                  [] step = "err_not_found" ->
                       /\ pc' = "error"
                       /\ result' = "err"
                       /\ err' = "control_block_not_found"
                       /\ lock' = "free"
    /\ ops' = IssueOnce(ops, "rtt_attach")
    /\ UNCHANGED << bp_units, reports >>
    /\ UNCHANGED << canary_vars, decode_vars, elf_vars, log_vars, start_vars, print_vars >>
    /\ UNCHANGED << exit_code, opts, elf_rtt, uses_heap, stack_info, canary,
                    core, gdb, handlers, exit, exit2, was_halted, polls,
                    halted_due_to_signal, canary_touched, unwind, printed,
                    prelim, outcome, logged >>

\* extract_and_print_logs between the channel setup and the loop: unlock the
\* session, choose the decoder, print the separator
CheckDefmt ==
    /\ pc = "check_defmt"
    /\ lock' = "free"
    /\ attach' = NoAttach
    /\ was_halted' = FALSE
    /\ pc' = "loop_check"
    /\ UNCHANGED << err, bp_units, reports >>
    /\ UNCHANGED << canary_vars, decode_vars, elf_vars, log_vars, start_vars, print_vars >>
    /\ UNCHANGED << result, exit_code, opts, elf_rtt, uses_heap, stack_info,
                    canary, core, gdb, handlers, exit, exit2, polls,
                    halted_due_to_signal, canary_touched, unwind, printed,
                    prelim, outcome, logged, ops >>

----------------------------------------------------------------------------
(* extract_and_print_logs: the poll loop *)

\* mutant: the loop goes on whatever the flag holds
WhileCondition_Ignored(flag) == TRUE

\* while !exit.load(Ordering::Relaxed)
WhileCondition(flag) == ~flag

\* mutant: the guard outlives the iteration
DropGuard_Kept(owner) == owner

\* locked_session goes out of scope at the end of the loop body
DropGuard(owner) == "free"

\* while !exit.load(): leave the loop, or lock the session for one iteration
LoopCheck ==
    /\ pc = "loop_check"
    /\ IF WhileCondition(exit)
       THEN /\ lock = "free"
            /\ lock' = "main"
            /\ pc' = "loop_read"
       ELSE pc' = "after_loop" /\ UNCHANGED lock
    /\ UNCHANGED << err, bp_units, attach, reports >>
    /\ UNCHANGED << canary_vars, decode_vars, elf_vars, log_vars, start_vars, print_vars >>
    /\ UNCHANGED << result, exit_code, opts, elf_rtt, uses_heap, stack_info,
                    canary, core, gdb, handlers, exit, exit2, was_halted, polls,
                    halted_due_to_signal, canary_touched, unwind, printed,
                    prelim, outcome, logged, ops >>

\* logging_channel.read and the forwarding of the bytes; an RTT error breaks
LoopRead ==
    /\ pc = "loop_read"
    /\ IF elf_rtt
       THEN \/ /\ pc' = "loop_halt"
               /\ ops' = IssueOnce(ops, "rtt_read")
               /\ UNCHANGED lock
            \/ /\ pc' = "after_loop"
               /\ ops' = IssueOnce(ops, "rtt_read_err")
               /\ lock' = "free"
       ELSE /\ pc' = "loop_halt"
            /\ UNCHANGED << ops, lock >>
    /\ UNCHANGED << err, bp_units, attach, reports >>
    /\ UNCHANGED << canary_vars, decode_vars, elf_vars, log_vars, start_vars, print_vars >>
    /\ UNCHANGED << result, exit_code, opts, elf_rtt, uses_heap, stack_info,
                    canary, core, gdb, handlers, exit, exit2, was_halted, polls,
                    halted_due_to_signal, canary_touched, unwind, printed,
                    prelim, outcome, logged >>

\* core.core_halted() and the break on two consecutive halted polls
LoopHalt ==
    /\ pc = "loop_halt"
    /\ LET is_halted == (core = "halted")
       IN  /\ polls' = LastTwo(polls, is_halted)
           /\ IF PollBreak(is_halted, was_halted, opts.gdb_on_start)
              THEN pc' = "after_loop" /\ UNCHANGED was_halted
              ELSE pc' = "loop_check" /\ was_halted' = is_halted
    /\ ops' = IssueOnce(ops, "core_halted")
    /\ lock' = DropGuard(lock)
    /\ UNCHANGED << err, bp_units, attach, reports >>
    /\ UNCHANGED << canary_vars, decode_vars, elf_vars, log_vars, start_vars, print_vars >>
    /\ UNCHANGED << result, exit_code, opts, elf_rtt, uses_heap, stack_info,
                    canary, core, gdb, handlers, exit, exit2,
                    halted_due_to_signal, canary_touched, unwind, printed,
                    prelim, outcome, logged >>

\* unregister the flag, register_conditional_default
AfterLoop ==
    /\ pc = "after_loop"
    /\ handlers' = (handlers \ {"flag"}) \cup {"cond_default"}
    /\ pc' = "sig_halt"
    /\ UNCHANGED << err, bp_units, attach, reports >>
    /\ UNCHANGED << canary_vars, decode_vars, elf_vars, log_vars, start_vars, print_vars >>
    /\ UNCHANGED << result, exit_code, opts, elf_rtt, uses_heap, stack_info,
                    canary, core, lock, gdb, exit, exit2, was_halted, polls,
                    halted_due_to_signal, canary_touched, unwind, printed,
                    prelim, outcome, logged, ops >>

\* Ctrl-C was pressed: stop the microcontroller; return halted_due_to_signal
\* (the locals of the function end with it)
SigHalt ==
    /\ pc = "sig_halt"
    /\ IF HaltOnSignal(exit)
       THEN \/ /\ lock = "free"
               /\ core' = "halted"
               /\ ops' = Issue(ops, "halt")
               /\ halted_due_to_signal' = HaltedDueToSignal(exit)
               /\ pc' = "measure"
               /\ UNCHANGED << result, err >>
            \/ /\ pc' = "error"
               /\ result' = "err"
               /\ err' = "probe"
               /\ UNCHANGED << core, ops, halted_due_to_signal >>
       ELSE /\ halted_due_to_signal' = HaltedDueToSignal(exit)
            /\ pc' = "measure"
            /\ UNCHANGED << core, ops, result, err >>
    /\ was_halted' = FALSE
    /\ polls' = << >>
    /\ UNCHANGED << bp_units, attach, reports >>
    /\ UNCHANGED << canary_vars, decode_vars, elf_vars, log_vars, start_vars, print_vars >>
    /\ UNCHANGED << exit_code, opts, elf_rtt, uses_heap, stack_info, canary,
                    lock, gdb, handlers, exit, exit2, canary_touched, unwind,
                    printed, prelim, outcome, logged >>

----------------------------------------------------------------------------
(* run_target_program: diagnosis *)

\* lock the session and measure the canary, if one was installed
MeasureCanary ==
    /\ pc = "measure"
    /\ lock = "free"
    /\ lock' = "main"
    /\ IF canary.status = "some"
       THEN \E t \in TouchedAddresses(canary) :
              /\ canary_touched' = Measure(canary, canary.addr + canary.size, t)
              /\ core' = IF t # 0 /\ t < canary.addr + MeasureSubroutineSize
                         THEN core ELSE "halted"
              /\ ops' = Issue(ops, "measure")
       ELSE /\ canary_touched' = FALSE
            /\ UNCHANGED << core, ops >>
    /\ pc' = "print_unwind"
    /\ UNCHANGED << err, bp_units, attach, reports >>
    /\ UNCHANGED << canary_vars, decode_vars, elf_vars, log_vars, start_vars, print_vars >>
    /\ UNCHANGED << result, exit_code, opts, elf_rtt, uses_heap, stack_info,
                    canary, gdb, handlers, exit, exit2, was_halted, polls,
                    halted_due_to_signal, unwind, printed, prelim, outcome,
                    logged >>

\* backtrace::print: unwind::target and symbolicate::frames
PrintUnwind ==
    /\ pc = "print_unwind"
    /\ \E u \in UnwindTarget(canary_touched, canary.data_below_stack) :
         /\ unwind' = u
         /\ prelim' = u.outcome
    /\ ops' = Issue(ops, "unwind")
    /\ pc' = "print_decide"
    /\ UNCHANGED << err, bp_units, attach, reports >>
    /\ UNCHANGED << canary_vars, decode_vars, elf_vars, log_vars, start_vars, print_vars >>
    /\ UNCHANGED << result, exit_code, opts, elf_rtt, uses_heap, stack_info,
                    canary, core, lock, gdb, handlers, exit, exit2, was_halted,
                    polls, halted_due_to_signal, canary_touched, printed,
                    outcome, logged >>

\* backtrace::print: decide whether to print, and print
PrintDecide ==
    /\ pc = "print_decide"
    /\ printed' = CallsPP(PrintBacktrace(opts.backtrace, canary_touched,
                                         halted_due_to_signal, unwind),
                          opts.backtrace_limit,
                          SymbolicatedLen(unwind.raw_frames))
    /\ reports' = Reports(printed', unwind)
    /\ pc' = "print_ret"
    /\ UNCHANGED << err, bp_units, attach >>
    /\ UNCHANGED << canary_vars, decode_vars, elf_vars, log_vars, start_vars, print_vars >>
    /\ UNCHANGED << result, exit_code, opts, elf_rtt, uses_heap, stack_info,
                    canary, core, lock, gdb, handlers, exit, exit2, was_halted,
                    polls, halted_due_to_signal, canary_touched, unwind, prelim,
                    outcome, logged, ops >>

\* backtrace::print: the Ctrl-C override and the return of the outcome
PrintReturn ==
    /\ pc = "print_ret"
    /\ outcome' = PrintOverride(halted_due_to_signal, unwind.outcome)
    /\ unwind' = NoUnwind
    /\ reports' = {}
    /\ pc' = "override"
    /\ UNCHANGED << err, bp_units, attach >>
    /\ UNCHANGED << canary_vars, decode_vars, elf_vars, log_vars, start_vars, print_vars >>
    /\ UNCHANGED << result, exit_code, opts, elf_rtt, uses_heap, stack_info,
                    canary, core, lock, gdb, handlers, exit, exit2, was_halted,
                    polls, halted_due_to_signal, canary_touched, printed,
                    prelim, logged, ops >>

\* mutant: the guard of the diagnosis is still alive at the final branch
DropLockedSession_Kept(owner) == owner

\* drop(core); drop(locked_session) after backtrace::print
DropLockedSession(owner) == "free"

\* the Ctrl-C override of run_target_program; the session guard is dropped
Override ==
    /\ pc = "override"
    /\ outcome' = MainOverride(halted_due_to_signal, outcome)
    /\ lock' = DropLockedSession(lock)
    /\ pc' = "branch"
    /\ UNCHANGED << err, bp_units, attach, reports >>
    /\ UNCHANGED << canary_vars, decode_vars, elf_vars, log_vars, start_vars, print_vars >>
    /\ UNCHANGED << result, exit_code, opts, elf_rtt, uses_heap, stack_info,
                    canary, core, gdb, handlers, exit, exit2, was_halted, polls,
                    halted_due_to_signal, canary_touched, unwind, printed,
                    prelim, logged, ops >>

----------------------------------------------------------------------------
(* run_target_program: the end of the run *)

\* gdb-on-fault: log the outcome, register a second SIGINT flag, spawn the worker
GdbOnFault ==
    /\ pc = "branch"
    /\ GdbOnFaultBranch(opts.gdb_on_fault, outcome)
    /\ logged' = outcome
    /\ \/ /\ handlers' = handlers \cup {"flag2"}
          /\ gdb' = gdb \cup {"fault"}
          /\ pc' = "gdb_wait"
          /\ UNCHANGED << result, err >>
       \/ /\ pc' = "error"
          /\ result' = "err"
          /\ err' = "signal_hook"
          /\ UNCHANGED << handlers, gdb >>
    /\ UNCHANGED << bp_units, attach, reports >>
    /\ UNCHANGED << canary_vars, decode_vars, elf_vars, log_vars, start_vars, print_vars >>
    /\ UNCHANGED << exit_code, opts, elf_rtt, uses_heap, stack_info, canary,
                    core, lock, exit, exit2, was_halted, polls,
                    halted_due_to_signal, canary_touched, unwind, printed,
                    prelim, outcome, ops >>

\* while !exit.load() { sleep }
GdbWait ==
    /\ pc = "gdb_wait"
    /\ exit2
    /\ pc' = "return"
    /\ UNCHANGED << err, bp_units, attach, reports >>
    /\ UNCHANGED << canary_vars, decode_vars, elf_vars, log_vars, start_vars, print_vars >>
    /\ UNCHANGED << result, exit_code, opts, elf_rtt, uses_heap, stack_info,
                    canary, core, lock, gdb, handlers, exit, exit2, was_halted,
                    polls, halted_due_to_signal, canary_touched, unwind,
                    printed, prelim, outcome, logged, ops >>

\* the else branch: lock the session, reset_and_halt
FinalReset ==
    /\ pc = "branch"
    /\ ~GdbOnFaultBranch(opts.gdb_on_fault, outcome)
    /\ lock = "free"
    /\ lock' = "main"
    /\ pc' = "final_reset"
    /\ UNCHANGED << err, bp_units, attach, reports >>
    /\ UNCHANGED << canary_vars, decode_vars, elf_vars, log_vars, start_vars, print_vars >>
    /\ UNCHANGED << result, exit_code, opts, elf_rtt, uses_heap, stack_info,
                    canary, core, gdb, handlers, exit, exit2, was_halted, polls,
                    halted_due_to_signal, canary_touched, unwind, printed,
                    prelim, outcome, logged, ops >>

\* core.reset_and_halt(TIMEOUT); outcome.log()
FinalLog ==
    /\ pc = "final_reset"
    /\ core' = "halted"
    /\ ops' = Issue(ops, "reset_and_halt")
    /\ logged' = outcome
    /\ lock' = "free"
    /\ pc' = "return"
    /\ UNCHANGED << err, bp_units, attach, reports >>
    /\ UNCHANGED << canary_vars, decode_vars, elf_vars, log_vars, start_vars, print_vars >>
    /\ UNCHANGED << result, exit_code, opts, elf_rtt, uses_heap, stack_info,
                    canary, gdb, handlers, exit, exit2, was_halted, polls,
                    halted_due_to_signal, canary_touched, unwind, printed,
                    prelim, outcome >>

\* Ok(outcome.into())
Return ==
    /\ pc = "return"
    /\ exit_code' = OutcomeToExitCode(outcome)
    /\ result' = "ok"
    /\ pc' = "done"
    /\ UNCHANGED << err, bp_units, attach, reports >>
    /\ UNCHANGED << canary_vars, decode_vars, elf_vars, log_vars, start_vars, print_vars >>
    /\ UNCHANGED << opts, elf_rtt, uses_heap, stack_info, canary, core, lock,
                    gdb, handlers, exit, exit2, was_halted, polls,
                    halted_due_to_signal, canary_touched, unwind, printed,
                    prelim, outcome, logged, ops >>

----------------------------------------------------------------------------
(* Specification of a run *)

Next ==
    \/ TargetHalts
    \/ GdbCommand
    \/ Sigint
    \/ Fail
    \/ GetStackStart
    \/ Install
    \/ CheckMeasure
    \/ StartProgram
    \/ ExtractSetup
    \/ Attach
    \/ CheckDefmt
    \/ LoopCheck
    \/ LoopRead
    \/ LoopHalt
    \/ AfterLoop
    \/ SigHalt
    \/ MeasureCanary
    \/ PrintUnwind
    \/ PrintDecide
    \/ PrintReturn
    \/ Override
    \/ GdbOnFault
    \/ GdbWait
    \/ FinalReset
    \/ FinalLog
    \/ Return

Spec == Init /\ [][Next]_vars

\* the steps of the main thread: everything but the target, SIGINT, the GDB
\* worker and the failure of a probe operation
MainNext ==
    \/ GetStackStart
    \/ Install
    \/ CheckMeasure
    \/ StartProgram
    \/ ExtractSetup
    \/ Attach
    \/ CheckDefmt
    \/ LoopCheck
    \/ LoopRead
    \/ LoopHalt
    \/ AfterLoop
    \/ SigHalt
    \/ MeasureCanary
    \/ PrintUnwind
    \/ PrintDecide
    \/ PrintReturn
    \/ Override
    \/ GdbOnFault
    \/ GdbWait
    \/ FinalReset
    \/ FinalLog
    \/ Return

\* the runs of SpecFair: every combination of the GDB options, of the inputs
\* of the canary and of RTT; the backtrace options, which only select what
\* backtrace::print writes, are fixed
InitFair ==
    /\ Init
    /\ opts.backtrace = "auto"
    /\ opts.backtrace_limit = 0

\* SpecFair: a run in which the main thread is never suspended for ever
SpecFair == InitFair /\ [][Next]_vars /\ WF_vars(MainNext)

----------------------------------------------------------------------------
(* Specification of Canary::prepare on its own *)

InitCanary ==
    /\ pc = "cn_prepare"
    /\ opts \in { o \in OptsSet : o.backtrace = "auto" /\ o.backtrace_limit = 0
                                  /\ ~o.measure_stack /\ ~o.gdb_on_start /\ ~o.gdb_on_fault }
    /\ elf_rtt = FALSE
    /\ uses_heap \in BOOLEAN
    /\ stack_info \in CanaryStackInfos
    /\ core = "halted"
    /\ InitLocals
    /\ mem \in {{}, Ram}
    /\ touched_address = 0
    /\ writes = 0
    /\ InitDecodeVars
    /\ InitElfVars
    /\ InitLogVars
    /\ InitStartVars
    /\ InitPrintVars

\* Canary::prepare
PrepareStep ==
    /\ pc = "cn_prepare"
    /\ canary' = Prepare(uses_heap, stack_info)
    /\ pc' = "cn_prepared"
    /\ UNCHANGED << err, bp_units, attach, reports >>
    /\ UNCHANGED << canary_vars, decode_vars, elf_vars, log_vars, start_vars, print_vars >>
    /\ UNCHANGED << result, exit_code, opts, elf_rtt, uses_heap, stack_info,
                    core, lock, gdb, handlers, exit, exit2, was_halted, polls,
                    halted_due_to_signal, canary_touched, unwind, printed,
                    prelim, outcome, logged, ops >>

\* Canary::install after prepare: paint the stack
PaintStep ==
    /\ pc = "cn_prepared"
    /\ canary.status = "some"
    /\ mem' = PaintExecute(mem, canary.addr, canary.size)
    /\ ops' = Issue(ops, "paint")
    /\ pc' = "cn_painted"
    /\ UNCHANGED << err, bp_units, attach, reports >>
    /\ UNCHANGED << touched_address, writes, decode_vars, elf_vars, log_vars, start_vars, print_vars >>
    /\ UNCHANGED << result, exit_code, opts, elf_rtt, uses_heap, stack_info,
                    canary, core, lock, gdb, handlers, exit, exit2, was_halted,
                    polls, halted_due_to_signal, canary_touched, unwind,
                    printed, prelim, outcome, logged >>

\* the firmware stores a byte other than 0xAA somewhere in RAM
FirmwareWrites ==
    /\ pc = "cn_painted"
    /\ writes < MaxWrites
    /\ \E a \in Ram \ mem : mem' = mem \cup {a}
    /\ writes' = writes + 1
    /\ UNCHANGED << err, bp_units, attach, reports >>
    /\ UNCHANGED << touched_address, decode_vars, elf_vars, log_vars, start_vars, print_vars >>
    /\ UNCHANGED << pc, result, exit_code, opts, elf_rtt, uses_heap, stack_info,
                    canary, core, lock, gdb, handlers, exit, exit2, was_halted,
                    polls, halted_due_to_signal, canary_touched, unwind,
                    printed, prelim, outcome, logged, ops >>

\* Canary::measure
MeasureStep ==
    /\ pc = "cn_painted"
    /\ LET r == MeasureExecute(mem, canary.addr, canary.size)
       IN  /\ touched_address' = r.result
           /\ mem' = r.mem
           /\ canary_touched' = Measure(canary, canary.addr + canary.size, r.result)
    /\ ops' = Issue(ops, "measure")
    /\ pc' = "cn_measured"
    /\ UNCHANGED << err, bp_units, attach, reports >>
    /\ UNCHANGED << writes, decode_vars, elf_vars, log_vars, start_vars, print_vars >>
    /\ UNCHANGED << result, exit_code, opts, elf_rtt, uses_heap, stack_info,
                    canary, core, lock, gdb, handlers, exit, exit2, was_halted,
                    polls, halted_due_to_signal, unwind, printed, prelim,
                    outcome, logged >>

NextCanary ==
    \/ PrepareStep
    \/ PaintStep
    \/ FirmwareWrites
    \/ MeasureStep

SpecCanary == InitCanary /\ [][NextCanary]_vars

\* SpecCanaryAny: the same steps from stack regions of any alignment
InitCanaryAny ==
    /\ pc = "cn_prepare"
    /\ opts \in { o \in OptsSet : o.backtrace = "auto" /\ o.backtrace_limit = 0
                                  /\ ~o.measure_stack /\ ~o.gdb_on_start /\ ~o.gdb_on_fault }
    /\ elf_rtt = FALSE
    /\ uses_heap \in BOOLEAN
    /\ stack_info \in AnyStackInfos
    /\ core = "halted"
    /\ InitLocals
    /\ InitCanaryVars
    /\ InitDecodeVars
    /\ InitElfVars
    /\ InitLogVars
    /\ InitStartVars
    /\ InitPrintVars

SpecCanaryAny == InitCanaryAny /\ [][NextCanary]_vars

----------------------------------------------------------------------------
(* Specification of the decoder loop on its own *)

\* extract_and_print_logs after stream_decoder.received(bytes)
InitDecode ==
    /\ pc = "dc_decode"
    /\ opts \in { o \in OptsSet : o.backtrace = "auto" /\ o.backtrace_limit = 0
                                  /\ ~o.measure_stack /\ ~o.gdb_on_start /\ ~o.gdb_on_fault }
    /\ elf_rtt = TRUE
    /\ uses_heap = FALSE
    /\ stack_info = NoStackInfo
    /\ core = "running"
    /\ InitLocals
    /\ InitCanaryVars
    /\ stream \in SeqsUpTo(DecodeResults, MaxStream)
    /\ decode_calls = 0
    /\ forwarded = << >>
    /\ can_recover \in BOOLEAN
    /\ InitElfVars
    /\ InitLogVars
    /\ InitStartVars
    /\ InitPrintVars

\* decode_and_print_defmt_logs: one iteration of its loop; the error goes
\* through the `?` of extract_and_print_logs and of run_target_program
DecodeStep ==
    /\ pc = "dc_decode"
    /\ LET r == IF decode_calls < Len(stream) THEN stream[decode_calls + 1]
                ELSE "UnexpectedEof"
           arm == DecodeArm(r, can_recover)
       IN  /\ decode_calls' = IF r = "UnexpectedEof" THEN decode_calls ELSE decode_calls + 1
           /\ forwarded' = IF arm = "forward" THEN Append(forwarded, r) ELSE forwarded
           /\ CASE arm = "forward" -> UNCHANGED << pc, result, err >>
                [] arm = "continue" -> UNCHANGED << pc, result, err >>
                [] arm = "break" -> pc' = "dc_drained" /\ UNCHANGED << result, err >>
                [] arm = "return_err" ->
                     /\ pc' = "error"
                     /\ result' = "err"
                     /\ err' = "decode"
    /\ UNCHANGED << bp_units, attach, reports >>
    /\ UNCHANGED << stream, can_recover, canary_vars, elf_vars, log_vars, start_vars, print_vars >>
    /\ UNCHANGED << exit_code, opts, elf_rtt, uses_heap, stack_info, canary,
                    core, lock, gdb, handlers, exit, exit2, was_halted, polls,
                    halted_due_to_signal, canary_touched, unwind, printed,
                    prelim, outcome, logged, ops >>

NextDecode == DecodeStep

SpecDecode == InitDecode /\ [][NextDecode]_vars

----------------------------------------------------------------------------
(* Specification of the start of a run: the ELF is parsed, then flashed *)

InitElf ==
    /\ pc = "elf_parse"
    /\ opts \in { o \in OptsSet : o.backtrace = "auto" /\ o.backtrace_limit = 0
                                  /\ ~o.measure_stack /\ ~o.gdb_on_start /\ ~o.gdb_on_fault }
    /\ elf_rtt = FALSE
    /\ uses_heap = FALSE
    /\ stack_info = NoStackInfo
    /\ core = "running"
    /\ InitLocals
    /\ InitCanaryVars
    /\ InitDecodeVars
    /\ InitLogVars
    /\ InitStartVars
    /\ InitPrintVars
    /\ elf_file \in ElfFiles
    /\ processed = "none"

\* run_target_program: parse the ELF; an error is returned by the `?`
ParseElf ==
    /\ pc = "elf_parse"
    /\ processed' = FromElf(elf_file)
    /\ IF processed' = "ok"
       THEN pc' = "elf_parsed" /\ UNCHANGED << result, err >>
       ELSE pc' = "error" /\ result' = "err" /\ err' = "elf"
    /\ UNCHANGED << bp_units, attach, reports >>
    /\ UNCHANGED << elf_file, canary_vars, decode_vars, log_vars, start_vars, print_vars >>
    /\ UNCHANGED << exit_code, opts, elf_rtt, uses_heap, stack_info, canary,
                    core, lock, gdb, handlers, exit, exit2, was_halted, polls,
                    halted_due_to_signal, canary_touched, unwind, printed,
                    prelim, outcome, logged, ops >>

\* run_target_program: open the probe, attach, flash unless --no-flash
AttachAndFlash ==
    /\ pc = "elf_parsed"
    /\ \/ \E no_flash \in BOOLEAN :
            /\ ops' = IF no_flash THEN Issue(ops, "attach")
                      ELSE Issue(Issue(ops, "attach"), "flash")
            /\ pc' = "get_stack"
            /\ UNCHANGED << result, err >>
       \/ /\ pc' = "error"
          /\ result' = "err"
          /\ err' = "probe"
          /\ UNCHANGED ops
    /\ UNCHANGED << bp_units, attach, reports >>
    /\ UNCHANGED << canary_vars, decode_vars, elf_vars, log_vars, start_vars, print_vars >>
    /\ UNCHANGED << exit_code, opts, elf_rtt, uses_heap, stack_info, canary,
                    core, lock, gdb, handlers, exit, exit2, was_halted, polls,
                    halted_due_to_signal, canary_touched, unwind, printed,
                    prelim, outcome, logged >>

NextElf ==
    \/ ParseElf
    \/ AttachAndFlash

SpecElf == InitElf /\ [][NextElf]_vars

----------------------------------------------------------------------------
(* SpecLog: extract_and_print_logs forwards the bytes of up-channel 0 *)

\* the byte values drawn
Bytes == {0, 1}

LogCfgs == [defmt_channel : BOOLEAN, no_flash : BOOLEAN, defmt_table : BOOLEAN]

\* use_defmt: the channel is named "defmt"
UseDefmt(cfg) == cfg.defmt_channel

\* the if / else-if on use_defmt: "warn", "bail" or "pass"
DefmtCheck(cfg) ==
    IF UseDefmt(cfg) /\ cfg.no_flash THEN "warn"
    ELSE IF UseDefmt(cfg) /\ ~cfg.defmt_table THEN "bail"
    ELSE "pass"

\* decoder_and_encoding: Some only with the "defmt" channel and a defmt table
DecoderAndEncoding(cfg) ==
    IF UseDefmt(cfg)
    THEN (IF cfg.defmt_table THEN "some" ELSE "none")
    ELSE "none"

InitLog ==
    /\ pc = "lg_setup"
    /\ opts \in OptsSet
    /\ elf_rtt = TRUE
    /\ uses_heap = FALSE
    /\ stack_info = NoStackInfo
    /\ core = "running"
    /\ InitLocals
    /\ InitCanaryVars
    /\ InitDecodeVars
    /\ InitElfVars
    /\ InitStartVars
    /\ InitPrintVars
    /\ log_cfg \in LogCfgs
    /\ decoder = "unset"
    /\ rtt_bytes = << >>
    /\ received = << >>
    /\ stdout = << >>
    /\ ring = NoRing
    /\ fw_written = << >>

\* the channel is attached: use_defmt, the defmt check, decoder_and_encoding
LogSetup ==
    /\ pc = "lg_setup"
    /\ IF DefmtCheck(log_cfg) = "bail"
       THEN /\ pc' = "error" /\ result' = "err" /\ err' = "no_defmt_table"
            /\ UNCHANGED decoder
       ELSE /\ pc' = "lg_loop"
            /\ decoder' = DecoderAndEncoding(log_cfg)
            /\ UNCHANGED << result, err >>
    /\ UNCHANGED << exit_code, opts, elf_rtt, uses_heap, stack_info, canary, core, lock,
                    gdb, handlers, exit, exit2, was_halted, polls, halted_due_to_signal,
                    canary_touched, unwind, printed, prelim, outcome, logged, ops,
                    bp_units, attach, reports, log_cfg, rtt_bytes, received, stdout,
                    ring, fw_written >>
    /\ UNCHANGED << canary_vars, decode_vars, elf_vars, start_vars, print_vars >>

\* one iteration of the poll loop: the read into read_buf and the forwarding of
\* read_buf[..num_bytes_read]; the read, the decoder or stdout may fail
LogIteration ==
    /\ pc = "lg_loop"
    /\ \/ \E chunk \in SeqsUpTo(Bytes, MaxRead) :
            /\ Len(rtt_bytes) + Len(chunk) <= MaxLogBytes
            /\ rtt_bytes' = rtt_bytes \o chunk
            /\ IF Len(chunk) # 0
               THEN IF decoder = "some"
                    THEN received' = received \o chunk /\ UNCHANGED stdout
                    ELSE stdout' = stdout \o chunk /\ UNCHANGED received
               ELSE UNCHANGED << received, stdout >>
            /\ \/ UNCHANGED << pc, result, err >>
               \/ /\ Len(chunk) # 0
                  /\ pc' = "error" /\ result' = "err"
                  /\ err' = (IF decoder = "some" THEN "decode" ELSE "stdout")
       \/ /\ pc' = "lg_done"
          /\ UNCHANGED << rtt_bytes, received, stdout, result, err >>
    /\ UNCHANGED << exit_code, opts, elf_rtt, uses_heap, stack_info, canary, core, lock,
                    gdb, handlers, exit, exit2, was_halted, polls, halted_due_to_signal,
                    canary_touched, unwind, printed, prelim, outcome, logged, ops,
                    bp_units, attach, reports, log_cfg, decoder, ring, fw_written >>
    /\ UNCHANGED << canary_vars, decode_vars, elf_vars, start_vars, print_vars >>

\* the loop ends: the flag is set or the core was seen halted twice
LogStop ==
    /\ pc = "lg_loop"
    /\ pc' = "lg_done"
    /\ UNCHANGED << result, exit_code, opts, elf_rtt, uses_heap, stack_info, canary, core,
                    lock, gdb, handlers, exit, exit2, was_halted, polls,
                    halted_due_to_signal, canary_touched, unwind, printed, prelim,
                    outcome, logged, ops, err, bp_units, attach, reports >>
    /\ UNCHANGED << canary_vars, decode_vars, elf_vars, log_vars, start_vars, print_vars >>

NextLog ==
    \/ LogSetup
    \/ LogIteration
    \/ LogStop

SpecLog == InitLog /\ [][NextLog]_vars

----------------------------------------------------------------------------
(* SpecStart: start_program and set_rtt_to_blocking, one probe call per step *)

\* cortexm::clear_thumb_bit
ClearThumbBit(addr) == addr - (addr % 2)

\* mutant: the vector-table entry is used as it is
HardFaultBreakpoint_Raw(cfg) == cfg.hard_fault

\* the address given to set_hw_breakpoint for the HardFault handler
HardFaultBreakpoint(cfg) == ClearThumbBit(cfg.hard_fault)

\* the address of the up-channel flags word
FlagsAddress(cfg) == cfg.rtt + OFFSET

\* the flags word and its two neighbours in the control block
FlagWords(cfg) == {FlagsAddress(cfg) - 4, FlagsAddress(cfg), FlagsAddress(cfg) + 4}

\* mutant: the word written holds the mode bits only
ModifiedChannelFlags_ModeOnly(flags) == MODE_BLOCK_IF_FULL

\* (channel_flags[0] & !MODE_MASK) | MODE_BLOCK_IF_FULL
ModifiedChannelFlags(flags) == (flags - (flags % (MODE_MASK + 1))) + MODE_BLOCK_IF_FULL

StartCfgs == [units : 0..1, main : {32}, hard_fault : {48, 49}, rtt : {64}]

\* the positions inside set_rtt_to_blocking after the breakpoint at main is set
RttPcs == {"rtt_run", "rtt_wait", "rtt_read", "rtt_write", "rtt_clear"}

\* the positions of start_program whose probe call may fail
StartFalliblePcs == {"sp_units", "rtt_set_bp", "sp_hf_bp", "sp_run"} \cup RttPcs

InitStart ==
    /\ pc = "sp_units"
    /\ opts \in { o \in OptsSet : o.backtrace = "auto" /\ o.backtrace_limit = 0
                                  /\ ~o.measure_stack /\ ~o.gdb_on_fault }
    /\ elf_rtt \in BOOLEAN
    /\ uses_heap = FALSE
    /\ stack_info = NoStackInfo
    /\ core \in {"halted", "running"}
    /\ InitLocals
    /\ InitCanaryVars
    /\ InitDecodeVars
    /\ InitElfVars
    /\ InitLogVars
    /\ InitPrintVars
    /\ start_cfg \in StartCfgs
    /\ breakpoints = {}
    /\ \E v \in 0..MaxFlags :
           target_words = [a \in FlagWords(start_cfg) |->
                               IF a = FlagsAddress(start_cfg) THEN v ELSE 0]
    /\ channel_flags = -1
    /\ word_writes = << >>

\* what a step of start_program leaves alone besides the variables it names
StartFrame ==
    /\ UNCHANGED << exit_code, opts, elf_rtt, uses_heap, stack_info, canary, handlers,
                    exit, exit2, was_halted, polls, halted_due_to_signal, canary_touched,
                    unwind, printed, prelim, outcome, logged, attach, reports,
                    start_cfg >>
    /\ UNCHANGED << canary_vars, decode_vars, elf_vars, log_vars, print_vars >>

\* the firmware stores to the flags word while it runs
FirmwareSetsFlags ==
    /\ pc \in StartFalliblePcs
    /\ core = "running"
    /\ \E v \in 0..MaxFlags :
           /\ v # target_words[FlagsAddress(start_cfg)]
           /\ target_words' = [target_words EXCEPT ![FlagsAddress(start_cfg)] = v]
    /\ UNCHANGED << pc, result, err, core, lock, gdb, ops, bp_units, breakpoints,
                    channel_flags, word_writes >>
    /\ StartFrame

\* a probe call of start_program or set_rtt_to_blocking returns Err: `?`
StartFail ==
    /\ pc \in StartFalliblePcs
    /\ pc' = "error"
    /\ result' = "err"
    /\ err' = "probe"
    /\ lock' = "free"
    /\ UNCHANGED << core, gdb, ops, bp_units, breakpoints, target_words,
                    channel_flags, word_writes >>
    /\ StartFrame

\* lock the session, core.available_breakpoint_units()
StartUnits ==
    /\ pc = "sp_units"
    /\ lock = "free"
    /\ bp_units' = start_cfg.units
    /\ IF NoBreakpointsFatal(start_cfg.units, elf_rtt)
       THEN /\ pc' = "error" /\ result' = "err" /\ err' = "no_hw_breakpoints"
            /\ lock' = "free"
       ELSE /\ pc' = (IF elf_rtt THEN "rtt_set_bp" ELSE "sp_hf_bp")
            /\ lock' = "main"
            /\ UNCHANGED << result, err >>
    /\ UNCHANGED << core, gdb, ops, breakpoints, target_words, channel_flags,
                    word_writes >>
    /\ StartFrame

\* core.set_hw_breakpoint(main_fn_address)
RttSetBreakpoint ==
    /\ pc = "rtt_set_bp"
    /\ breakpoints' = breakpoints \cup {start_cfg.main}
    /\ pc' = "rtt_run"
    /\ UNCHANGED << result, err, core, lock, gdb, ops, bp_units, target_words,
                    channel_flags, word_writes >>
    /\ StartFrame

\* core.run()
RttRun ==
    /\ pc = "rtt_run"
    /\ core' = "running"
    /\ ops' = Issue(ops, "run")
    /\ pc' = "rtt_wait"
    /\ UNCHANGED << result, err, lock, gdb, bp_units, breakpoints, target_words,
                    channel_flags, word_writes >>
    /\ StartFrame

\* core.wait_for_core_halted(5 s) returns Ok once the core is halted
RttWait ==
    /\ pc = "rtt_wait"
    /\ core = "halted"
    /\ pc' = "rtt_read"
    /\ UNCHANGED << result, err, core, lock, gdb, ops, bp_units, breakpoints,
                    target_words, channel_flags, word_writes >>
    /\ StartFrame

\* core.read_32(rtt_buffer_address + OFFSET, channel_flags)
RttRead ==
    /\ pc = "rtt_read"
    /\ channel_flags' = target_words[FlagsAddress(start_cfg)]
    /\ pc' = "rtt_write"
    /\ UNCHANGED << result, err, core, lock, gdb, ops, bp_units, breakpoints,
                    target_words, word_writes >>
    /\ StartFrame

\* core.write_word_32(rtt_buffer_address + OFFSET, modified_channel_flags)
RttWrite ==
    /\ pc = "rtt_write"
    /\ target_words' = [target_words EXCEPT
                            ![FlagsAddress(start_cfg)] = ModifiedChannelFlags(channel_flags)]
    /\ word_writes' = Append(word_writes, FlagsAddress(start_cfg))
    /\ pc' = "rtt_clear"
    /\ UNCHANGED << result, err, core, lock, gdb, ops, bp_units, breakpoints,
                    channel_flags >>
    /\ StartFrame

\* core.clear_hw_breakpoint(main_fn_address); set_rtt_to_blocking returns Ok
RttClearBreakpoint ==
    /\ pc = "rtt_clear"
    /\ breakpoints' = breakpoints \ {start_cfg.main}
    /\ ops' = Issue(ops, "set_rtt_to_blocking")
    /\ pc' = "sp_hf_bp"
    /\ UNCHANGED << result, err, core, lock, gdb, bp_units, target_words,
                    channel_flags, word_writes >>
    /\ StartFrame

\* core.set_hw_breakpoint(clear_thumb_bit(hard_fault)); the session is unlocked;
\* with a GDB port the server thread is spawned and start_program returns
SetHardFaultBreakpoint ==
    /\ pc = "sp_hf_bp"
    /\ breakpoints' = breakpoints \cup {HardFaultBreakpoint(start_cfg)}
    /\ ops' = Issue(ops, "set_hw_breakpoint")
    /\ lock' = "free"
    /\ IF opts.gdb_on_start
       THEN gdb' = gdb \cup {"start"} /\ pc' = "sp_started"
       ELSE gdb' = gdb /\ pc' = "sp_run"
    /\ UNCHANGED << result, err, core, bp_units, target_words, channel_flags,
                    word_writes >>
    /\ StartFrame

\* no GDB server: lock the session, core.run(), unlock
StartRun ==
    /\ pc = "sp_run"
    /\ lock = "free"
    /\ core' = "running"
    /\ ops' = Issue(ops, "run")
    /\ pc' = "sp_started"
    /\ UNCHANGED << result, err, lock, gdb, bp_units, breakpoints, target_words,
                    channel_flags, word_writes >>
    /\ StartFrame

\* the firmware reaches a breakpoint or a bkpt instruction
StartTargetHalts ==
    /\ pc \in StartFalliblePcs
    /\ core = "running"
    /\ core' = "halted"
    /\ UNCHANGED << pc, result, err, lock, gdb, ops, bp_units, breakpoints,
                    target_words, channel_flags, word_writes >>
    /\ StartFrame

NextStart ==
    \/ StartTargetHalts
    \/ FirmwareSetsFlags
    \/ StartFail
    \/ StartUnits
    \/ RttSetBreakpoint
    \/ RttRun
    \/ RttWait
    \/ RttRead
    \/ RttWrite
    \/ RttClearBreakpoint
    \/ SetHardFaultBreakpoint
    \/ StartRun

SpecStart == InitStart /\ [][NextStart]_vars

----------------------------------------------------------------------------
(* SpecDrain: the poll loop drains the ring buffer of a firmware that halts *)

\* the ring-buffer sizes drawn; a ring of n bytes holds at most n - 1
RingSizes == 2..(MaxLogBytes + 1)

\* logging_channel.read: the pending bytes that fit into read_buf
ReadLen(pending) == IF Len(pending) < MaxRead THEN Len(pending) ELSE MaxRead

InitDrain ==
    /\ pc = "dr_read"
    /\ opts \in { o \in OptsSet : o.backtrace = "auto" /\ o.backtrace_limit = 0
                                  /\ ~o.measure_stack /\ ~o.gdb_on_fault
                                  /\ ~o.gdb_on_start }
    /\ elf_rtt = TRUE
    /\ uses_heap = FALSE
    /\ stack_info = NoStackInfo
    /\ core = "running"
    /\ InitLocals
    /\ InitCanaryVars
    /\ InitDecodeVars
    /\ InitElfVars
    /\ InitStartVars
    /\ InitPrintVars
    /\ log_cfg = NoLogCfg
    /\ decoder = "none"
    /\ rtt_bytes = << >>
    /\ received = << >>
    /\ stdout = << >>
    /\ \E n \in RingSizes : ring = [size |-> n, data |-> << >>]
    /\ fw_written = << >>

\* what a step of the drain leaves alone besides the variables it names
DrainFrame ==
    /\ UNCHANGED << result, exit_code, opts, elf_rtt, uses_heap, stack_info, canary,
                    lock, gdb, handlers, exit, exit2, halted_due_to_signal,
                    canary_touched, unwind, printed, prelim, outcome, logged, ops,
                    err, bp_units, attach, reports, log_cfg, decoder, received >>
    /\ UNCHANGED << canary_vars, decode_vars, elf_vars, start_vars, print_vars >>

\* the firmware writes a byte; in blocking mode it waits while the ring is full
FirmwareLogs ==
    /\ pc \in {"dr_read", "dr_halt"}
    /\ core = "running"
    /\ Len(fw_written) < MaxLogBytes
    /\ Len(ring.data) < ring.size - 1
    /\ \E b \in Bytes :
           /\ ring' = [ring EXCEPT !.data = Append(@, b)]
           /\ fw_written' = Append(fw_written, b)
    /\ UNCHANGED << pc, core, was_halted, polls, rtt_bytes, stdout >>
    /\ DrainFrame

\* the firmware reaches its final breakpoint
FirmwareHalts ==
    /\ pc \in {"dr_read", "dr_halt"}
    /\ core = "running"
    /\ core' = "halted"
    /\ UNCHANGED << pc, was_halted, polls, rtt_bytes, stdout, ring, fw_written >>
    /\ DrainFrame

\* logging_channel.read into read_buf and stdout.write_all of the bytes read
DrainRead ==
    /\ pc = "dr_read"
    /\ LET n == ReadLen(ring.data)
           chunk == SubSeq(ring.data, 1, n)
       IN  /\ rtt_bytes' = rtt_bytes \o chunk
           /\ stdout' = stdout \o chunk
           /\ ring' = [ring EXCEPT !.data = SubSeq(@, n + 1, Len(@))]
    /\ pc' = "dr_halt"
    /\ UNCHANGED << core, was_halted, polls, fw_written >>
    /\ DrainFrame

\* core.core_halted() and the break on two consecutive halted polls
DrainHalt ==
    /\ pc = "dr_halt"
    /\ LET is_halted == (core = "halted")
       IN  /\ polls' = LastTwo(polls, is_halted)
           /\ IF PollBreak(is_halted, was_halted, opts.gdb_on_start)
              THEN pc' = "dr_done" /\ UNCHANGED was_halted
              ELSE pc' = "dr_read" /\ was_halted' = is_halted
    /\ UNCHANGED << core, rtt_bytes, stdout, ring, fw_written >>
    /\ DrainFrame

NextDrain ==
    \/ FirmwareLogs
    \/ FirmwareHalts
    \/ DrainRead
    \/ DrainHalt

SpecDrain == InitDrain /\ [][NextDrain]_vars

----------------------------------------------------------------------------
(* SpecPrint: the defmt-print tool reads stdin and decodes what it has read *)

\* the results of defmt_decoder::decode on a buffer: Ok((frame, consumed)) with
\* at least one and at most all of its bytes consumed, UnexpectedEof or
\* Malformed; an empty buffer holds no frame
DecodeOutcomes(buffer) ==
    { [kind |-> "Ok", consumed |-> c] : c \in 1..Len(buffer) }
        \cup { [kind |-> "UnexpectedEof", consumed |-> 0] }
        \cup (IF Len(buffer) = 0 THEN {} ELSE { [kind |-> "Malformed", consumed |-> 0] })

\* stdin.read(&mut buf): 0 at the end of the input, else between one byte and
\* as many as buf holds
ReadCounts(input) ==
    IF Len(input) = 0 THEN {0}
    ELSE 1..(IF Len(input) < MaxRead THEN Len(input) ELSE MaxRead)

InitPrint ==
    /\ pc = "pd_read"
    /\ opts \in { o \in OptsSet : o.backtrace = "auto" /\ o.backtrace_limit = 0
                                  /\ ~o.measure_stack /\ ~o.gdb_on_start /\ ~o.gdb_on_fault }
    /\ elf_rtt = FALSE
    /\ uses_heap = FALSE
    /\ stack_info = NoStackInfo
    /\ core = "halted"
    /\ InitLocals
    /\ InitCanaryVars
    /\ InitDecodeVars
    /\ InitElfVars
    /\ InitLogVars
    /\ InitStartVars
    /\ stdin \in SeqsUpTo(Bytes, MaxStream)
    /\ num_read = -1
    /\ frames = << >>
    /\ log_defmt = << >>

\* what a step of defmt-print leaves alone
PrintFrame ==
    /\ UNCHANGED << exit_code, opts, elf_rtt, uses_heap, stack_info, canary, core,
                    lock, gdb, handlers, exit, exit2, was_halted, polls,
                    halted_due_to_signal, canary_touched, unwind, printed, prelim,
                    outcome, logged, ops, bp_units, attach, reports >>
    /\ UNCHANGED << canary_vars, decode_vars, elf_vars, log_vars, start_vars >>

\* let n = stdin.read(&mut buf)?; frames.extend_from_slice(&buf[..n])
PrintRead ==
    /\ pc = "pd_read"
    /\ \/ \E n \in ReadCounts(stdin) :
            /\ num_read' = n
            /\ frames' = frames \o SubSeq(stdin, 1, n)
            /\ stdin' = SubSeq(stdin, n + 1, Len(stdin))
            /\ pc' = "pd_decode"
            /\ UNCHANGED << result, err >>
       \/ /\ pc' = "pd_error"
          /\ result' = "err"
          /\ err' = "stdin"
          /\ UNCHANGED << stdin, num_read, frames >>
    /\ UNCHANGED log_defmt
    /\ PrintFrame

\* one turn of the loop of decode_loop: log and remove a frame, return Ok on
\* UnexpectedEof (back to the read of main), return Err on Malformed
DecodeLoop ==
    /\ pc = "pd_decode"
    /\ \E r \in DecodeOutcomes(frames) :
         CASE r.kind = "Ok" ->
                 /\ log_defmt' = Append(log_defmt, SubSeq(frames, 1, r.consumed))
                 /\ frames' = SubSeq(frames, r.consumed + 1, Len(frames))
                 /\ UNCHANGED << pc, result, err >>
           [] r.kind = "UnexpectedEof" ->
                 /\ pc' = "pd_read"
                 /\ UNCHANGED << frames, log_defmt, result, err >>
           [] r.kind = "Malformed" ->
                 /\ pc' = "pd_error"
                 /\ result' = "err"
                 /\ err' = "decode"
                 /\ UNCHANGED << frames, log_defmt >>
    /\ UNCHANGED << stdin, num_read >>
    /\ PrintFrame

NextPrint ==
    \/ PrintRead
    \/ DecodeLoop

SpecPrint == InitPrint /\ [][NextPrint]_vars

----------------------------------------------------------------------------
(* Properties *)

TwoHalted == Len(polls) = 2 /\ polls[1] /\ polls[2]

RttReadFailed == "rtt_read_err" \in Range(ops)

\* positions after extract_and_print_logs has returned Ok
DiagnosisPcs ==
    {"measure", "print_unwind", "print_decide", "print_ret", "override",
     "branch", "gdb_wait", "final_reset", "return", "done"}

\* positions at which run_target_program holds the outcome of the run
OutcomePcs == {"branch", "gdb_wait", "final_reset", "return", "done"}

\* a core.halt was issued, and before every canary measurement and unwind
HaltPrecedesDiagnosis ==
    \E i \in 1..Len(ops) :
        /\ ops[i] = "halt"
        /\ \A j \in 1..Len(ops) : ops[j] \in {"measure", "unwind"} => i < j

\* C1: the returned exit code is 0 for Ok, the SIGABRT number for HardFault
\* and for StackOverflow, the SIGINT number for CtrlC; so it is 0 iff the
\* outcome is Ok.
C1_ExitCodeOfOutcome ==
    result = "ok" =>
        /\ outcome \in Outcomes
        /\ outcome = "Ok" => exit_code = 0
        /\ outcome = "HardFault" => exit_code = SIGABRT
        /\ outcome = "StackOverflow" => exit_code = SIGABRT
        /\ outcome = "CtrlC" => exit_code = SIGINT
        /\ (exit_code = 0) <=> (outcome = "Ok")

C1_Witness == result = "ok" /\ outcome = "CtrlC" /\ exit_code = SIGINT

\* C2: a run that returns exit code 0 logged the outcome Ok last; a run whose
\* final outcome is HardFault, StackOverflow or CtrlC does not return 0.
C2_ZeroExitMeansOkLogged ==
    result = "ok" =>
        /\ logged = outcome
        /\ exit_code = 0 => logged = "Ok"
        /\ logged \in {"HardFault", "StackOverflow", "CtrlC"} => exit_code # 0

C2_Witness == result = "ok" /\ exit_code = 0 /\ logged = "Ok"

\* C3 as stated: the poll loop is left only on two consecutive halted polls
\* or with the SIGINT flag set.
C3_LeftOnlyOnTwoHaltsOrSigint ==
    (pc = "after_loop" /\ ~exit) => TwoHalted

\* C3 as amended: the poll loop is left only on two consecutive halted
\* polls, with the SIGINT flag set, or on an RTT read error; it is never left
\* on a single halt observation.
C3_LeftOnTwoHaltsSigintOrRttError ==
    (pc = "after_loop" /\ ~exit /\ ~RttReadFailed) => TwoHalted

C3_Witness == pc = "after_loop" /\ ~exit /\ ~RttReadFailed /\ TwoHalted

\* C4 as stated: in every configuration, once the SIGINT flag is set or two
\* consecutive polls reported the core halted, no further iteration starts.
C4_NoIterationAfterExitCondition ==
    [][ (exit \/ TwoHalted) => ~(pc = "loop_check" /\ pc' = "loop_read") ]_vars

\* C4 as amended: once the SIGINT flag is set, or two consecutive polls
\* reported the core halted and no GDB server was started at program start,
\* no further iteration starts.
C4_NoIterationAfterExitConditionNoGdb ==
    [][ (exit \/ (TwoHalted /\ ~opts.gdb_on_start))
            => ~(pc = "loop_check" /\ pc' = "loop_read") ]_vars

C4_Witness ==
    /\ pc = "after_loop"
    /\ exit
    /\ Len(polls) >= 1
    /\ ~polls[Len(polls)]

\* C5: when SIGINT was received during the poll loop, diagnosis is reached
\* only after a core.halt was issued, and a run whose outcome would otherwise
\* be Ok ends with the outcome CtrlC.
C5_SigintHaltsThenCtrlC ==
    /\ (pc \in DiagnosisPcs /\ exit) => (halted_due_to_signal /\ HaltPrecedesDiagnosis)
    /\ (result = "ok" /\ exit /\ prelim = "Ok") =>
            (outcome = "CtrlC" /\ logged = "CtrlC" /\ exit_code = SIGINT)

C5_Witness ==
    /\ result = "ok"
    /\ exit
    /\ prelim = "Ok"
    /\ outcome = "CtrlC"
    /\ HaltPrecedesDiagnosis
    /\ "unwind" \in Range(ops)

\* C6: the final outcome is CtrlC iff SIGINT was observed and the
\* preliminary outcome is Ok; HardFault and StackOverflow are never replaced,
\* and without SIGINT the preliminary outcome is returned unchanged.
C6_CtrlCIffSigintAndOk ==
    pc \in OutcomePcs =>
        /\ (outcome = "CtrlC") <=> (halted_due_to_signal /\ prelim = "Ok")
        /\ prelim \in {"HardFault", "StackOverflow"} => outcome = prelim
        /\ ~halted_due_to_signal => outcome = prelim

C6_Witness ==
    /\ pc = "done"
    /\ halted_due_to_signal
    /\ prelim = "HardFault"
    /\ outcome = "HardFault"

C8_AlwaysPrints ==
    (pc \in {"print_ret", "override"} \cup OutcomePcs /\ opts.backtrace = "always")
        => printed

C8_Witness ==
    /\ pc = "print_ret"
    /\ opts.backtrace = "always"
    /\ opts.backtrace_limit = 0
    /\ unwind.outcome = "Ok"
    /\ ~halted_due_to_signal
    /\ printed

\* C9: with --backtrace never no backtrace is printed, and the outcome and
\* the exit code are those the preliminary outcome and SIGINT alone determine.
C9_NeverPrintsSameOutcome ==
    opts.backtrace = "never" =>
        /\ ~printed
        /\ result = "ok" =>
            /\ outcome = IF halted_due_to_signal /\ prelim = "Ok" THEN "CtrlC" ELSE prelim
            /\ exit_code = IF outcome = "Ok" THEN 0
                           ELSE IF outcome = "CtrlC" THEN SIGINT ELSE SIGABRT

C9_Witness ==
    /\ result = "ok"
    /\ opts.backtrace = "never"
    /\ prelim = "HardFault"
    /\ ~printed
    /\ exit_code = SIGABRT

\* C10: Canary::prepare yields None exactly when the stack region is unknown,
\* the program uses the heap, or the stack is smaller than 20 bytes; otherwise
\* a canary with addr = stack range start and the stack's data_below_stack.
C10_PrepareNoneIff ==
    pc = "cn_prepared" =>
        /\ (canary.status = "none") <=>
               \/ ~stack_info.known
               \/ uses_heap
               \/ stack_info.end - stack_info.start < 20
        /\ canary.status # "none" =>
               /\ canary.status = "some"
               /\ canary.addr = stack_info.start
               /\ canary.data_below_stack = stack_info.data_below_stack

C10_Witness ==
    /\ pc = "cn_prepared"
    /\ canary.status = "some"
    /\ canary.size = 20
    /\ canary.data_below_stack

\* Canary::install returned None: the reset of get_stack_start_and_reset_handler
\* was issued, and install and the check of its result have run
InstallYieldedNone ==
    /\ canary.status = "none"
    /\ "reset" \in Range(ops)
    /\ pc \notin {"install", "check_measure"}

StackTouched(m) == m \cap (canary.addr .. (canary.addr + canary.size - 1))

\* C12: a measurement after install reports no touched address iff no byte
\* of [addr, addr + size) differs from 0xAA when it starts; a measurement
\* that follows install with no firmware write in between reports none.
C12_MeasureNoneIffUntouched ==
    [][ (pc = "cn_painted" /\ pc' = "cn_measured") =>
            /\ (touched_address' = 0) <=> (StackTouched(mem) = {})
            /\ writes = 0 => touched_address' = 0 ]_vars

C12_Witness ==
    /\ pc = "cn_measured"
    /\ writes = 0
    /\ touched_address = 0
    /\ canary.size > MeasureSubroutineSize
    /\ ~canary_touched

\* the stack usage Canary::measure derives from the touched address
MinStackUsage ==
    IF touched_address = 0 THEN 0 ELSE canary.addr + canary.size - touched_address

\* C13 as stated: measure returns true iff the usage exceeds 90% of the
\* stack size and data_below_stack is true.
C13_OverflowLikelyNeedsDataBelow ==
    pc = "cn_measured" =>
        (canary_touched <=> (10 * MinStackUsage > 9 * canary.size /\ canary.data_below_stack))

\* C13 as amended: measure returns true iff the usage exceeds 90% of the
\* stack size, whether or not there is data below the stack.
C13_OverflowLikelyIffAbove90 ==
    pc = "cn_measured" =>
        (canary_touched <=> 10 * MinStackUsage > 9 * canary.size)

C13_Witness ==
    /\ pc = "cn_measured"
    /\ canary_touched
    /\ ~canary.data_below_stack
    /\ touched_address = canary.addr + 1

PollLoopPcs == {"loop_check", "loop_read", "loop_halt"}

\* C14: at most NUM_RETRIES = 10 attach attempts are made; an attempt after
\* the first is made only when the one before failed with
\* ControlBlockNotFound; any other attach error and a missing up channel 0
\* are returned at once; the tenth ControlBlockNotFound is returned as that
\* error. Nothing else is retried: every other error ends the run, and the
\* poll loop is not resumed after a failed RTT read.
C14_AttachRetriedOnlyOnNotFound ==
    [][ /\ attach'.attempts <= NUM_RETRIES
        /\ (attach'.attempts = attach.attempts + 1 /\ attach.attempts > 0)
               => attach.last = "ControlBlockNotFound"
        /\ attach'.last = "Other" => (pc' = "error" /\ err' = "attach")
        /\ attach'.last = "NoChannel" => (pc' = "error" /\ err' = "no_up_channel")
        /\ (attach'.last = "ControlBlockNotFound" /\ attach'.attempts = NUM_RETRIES)
               => (pc' = "error" /\ err' = "control_block_not_found")
        /\ err' = "control_block_not_found"
               => (attach'.attempts = NUM_RETRIES /\ attach'.last = "ControlBlockNotFound")
        /\ err' # "none" => (pc' = "error" /\ result' = "err")
        /\ pc = "error" => (pc' = "error" /\ ops' = ops)
        /\ RttReadFailed => pc' \notin PollLoopPcs ]_vars

C14_Witness ==
    /\ pc = "error"
    /\ err = "control_block_not_found"
    /\ attach.attempts = NUM_RETRIES
    /\ attach.last = "ControlBlockNotFound"

\* the probe operations start_program issues after it has read the number
\* of breakpoint units
StartOps == {"set_rtt_to_blocking", "set_hw_breakpoint", "run"}

\* C15: with zero breakpoint units and an RTT control block in the ELF,
\* start_program fails with the breakpoint error before it touches the
\* core; with zero units and no RTT control block it goes on, sets the
\* HardFault breakpoint and starts the core (or leaves it to GDB).
C15_ZeroBreakpointUnits ==
    /\ (bp_units = 0 /\ elf_rtt) =>
            /\ pc = "error"
            /\ result = "err"
            /\ err = "no_hw_breakpoints"
            /\ Range(ops) \cap StartOps = {}
    /\ (bp_units = 0 /\ ~elf_rtt) =>
            /\ err # "no_hw_breakpoints"
            /\ "set_hw_breakpoint" \in Range(ops)
            /\ opts.gdb_on_start \/ "run" \in Range(ops)
    /\ err = "no_hw_breakpoints" => (bp_units = 0 /\ elf_rtt)

C15_Witness ==
    /\ bp_units = 0
    /\ elf_rtt
    /\ pc = "error"
    /\ err = "no_hw_breakpoints"
    /\ canary.status = "some"

LastOp == IF Len(ops) = 0 THEN "none" ELSE ops[Len(ops)]

\* C16 as stated: every run that returns an exit code issued reset_and_halt
\* as its last probe operation.
C16_RunEndsWithResetAndHalt ==
    result = "ok" => LastOp = "reset_and_halt"

\* C16 as amended: a run that returns an exit code issued reset_and_halt as
\* the last probe operation of the controller, unless the outcome is
\* HardFault under --gdb-on-fault: then nothing is issued after the unwind.
C16_RunEndsWithResetUnlessGdbOnFault ==
    result = "ok" =>
        IF opts.gdb_on_fault /\ outcome = "HardFault"
        THEN LastOp = "unwind"
        ELSE LastOp = "reset_and_halt"

C16_Witness ==
    /\ result = "ok"
    /\ opts.gdb_on_fault
    /\ outcome = "StackOverflow"
    /\ LastOp = "reset_and_halt"

\* C18 as stated: a GDB worker exists only after a HardFault outcome.
C18_GdbOnlyAfterHardFault ==
    gdb # {} => outcome = "HardFault"

\* C18 as amended: a GDB worker is spawned either by start_program under
\* --gdb-on-start or, under --gdb-on-fault, after the run produced the
\* outcome HardFault; once the gdb-on-fault worker exists the main thread
\* issues no probe operation and does not lock the session.
C18_GdbWorkers ==
    [][ /\ "fault" \in gdb' => (opts.gdb_on_fault /\ outcome' = "HardFault")
        /\ "fault" \in gdb' \ gdb => pc = "branch"
        /\ "start" \in gdb' => opts.gdb_on_start
        /\ "start" \in gdb' \ gdb => pc = "start_program"
        /\ "fault" \in gdb =>
               /\ ops' = ops
               /\ lock' = "free"
               /\ pc' \in {"gdb_wait", "return", "done", "killed"} ]_vars

C18_Witness ==
    /\ gdb = {"start", "fault"}
    /\ pc = "done"
    /\ outcome = "HardFault"
    /\ exit_code = SIGABRT

IsFrame(r) == r # "Malformed"

\* the results decode() has returned so far
Decoded == SubSeq(stream, 1, decode_calls)

\* C17: the frames forwarded are the frames decode() returned, in that
\* order; the loop ends normally only when the decoder is drained; a
\* Malformed result is passed over when the encoding can recover, and
\* otherwise ends the loop and the run with an error right there, with no
\* outcome and no later frame forwarded.
C17_DrainForwardsInOrder ==
    /\ forwarded = SelectSeq(Decoded, IsFrame)
    /\ pc = "dc_drained" => decode_calls = Len(stream)
    /\ \A i \in 1..decode_calls :
           (stream[i] = "Malformed" /\ ~can_recover) => (i = decode_calls /\ pc = "error")
    /\ pc = "error" =>
           /\ decode_calls >= 1
           /\ stream[decode_calls] = "Malformed"
           /\ ~can_recover
           /\ result = "err"
           /\ err = "decode"
           /\ outcome = "none"
           /\ exit_code = -1

C17_Witness ==
    /\ pc = "error"
    /\ err = "decode"
    /\ decode_calls = 2
    /\ Len(forwarded) = 1
    /\ Len(stream) = MaxStream
    /\ IsFrame(stream[MaxStream])

\* an ELF file that lacks nothing but, possibly, its .debug_frame section
WellFormedButDebugFrame ==
    /\ elf_file.parse
    /\ elf_file.text
    /\ elf_file.defmt # "err"
    /\ elf_file.vector_table = "ok"
    /\ elf_file.main

\* C19 as stated: an ELF without a .debug_frame section is not rejected.
C19_NoDebugFrameAccepted ==
    (pc # "elf_parse" /\ WellFormedButDebugFrame /\ elf_file.debug_frame = "missing")
        => processed = "ok"

\* C19 as amended: an ELF without a .debug_frame section is rejected when
\* it is parsed, with the error that the section was not found when nothing
\* else is wrong with the file; the probe is not attached and nothing is
\* flashed. The same file with the section is accepted.
C19_NoDebugFrameRejected ==
    /\ (pc # "elf_parse" /\ elf_file.debug_frame = "missing") =>
            /\ processed # "ok"
            /\ pc = "error"
            /\ result = "err"
            /\ ops = << >>
            /\ WellFormedButDebugFrame => processed = "debug_frame_not_found"
    /\ (pc # "elf_parse" /\ WellFormedButDebugFrame /\ elf_file.debug_frame = "present")
            => processed = "ok"

C19_Witness ==
    /\ pc = "error"
    /\ WellFormedButDebugFrame
    /\ elf_file.debug_frame = "missing"
    /\ processed = "debug_frame_not_found"

\* the reports the unwinder's output calls for
ReportsDue ==
    (IF unwind.corrupted THEN {"corrupted"} ELSE {})
        \cup (IF unwind.processing_error THEN {"processing_error"} ELSE {})

\* C20 as stated: whenever the unwinder recorded a processing_error or
\* marked the stack corrupted, the backtrace is printed and followed by the
\* matching reports, whatever --backtrace is.
C20_ErrorsAlwaysReported ==
    (pc = "print_ret" /\ ReportsDue # {}) => (printed /\ reports = ReportsDue)

\* C20 as amended: the reports are logged exactly when the backtrace is
\* printed, after it: always with --backtrace always, never with
\* --backtrace never, with --backtrace auto whenever the stack is corrupted
\* (a processing_error alone does not make auto print); the outcome is the
\* one the unwinder's outcome and SIGINT determine.
C20_ErrorsReportedWhenPrinted ==
    /\ pc = "print_ret" =>
           /\ reports = IF printed THEN ReportsDue ELSE {}
           /\ opts.backtrace = "always" => printed
           /\ opts.backtrace = "never" => ~printed
           /\ (opts.backtrace = "auto" /\ unwind.corrupted) => printed
    /\ pc = "override" =>
           outcome = IF halted_due_to_signal /\ prelim = "Ok" THEN "CtrlC" ELSE prelim

C20_Witness ==
    /\ pc = "print_ret"
    /\ opts.backtrace = "auto"
    /\ unwind.corrupted
    /\ unwind.processing_error
    /\ ~halted_due_to_signal
    /\ ~canary_touched
    /\ reports = {"corrupted", "processing_error"}

----------------------------------------------------------------------------
(* C21..C30 *)

\* the bytes read so far went to `to`, in read order, and nothing to the other sink
DeliveredTo(to, other) == to = rtt_bytes /\ other = << >>

\* C21: every byte read from up-channel 0 is delivered exactly once and in read
\* order: to the stream decoder when the channel is named "defmt", verbatim to
\* stdout otherwise.
C21_BytesDeliveredOnceInOrder ==
    (pc \in {"lg_loop", "lg_done"}) =>
        IF log_cfg.defmt_channel
        THEN DeliveredTo(received, stdout)
        ELSE DeliveredTo(stdout, received)

\* the canary covers the stack region and both subroutines are word multiples
CanaryInstalled == canary.status = "some"

\* C22 as stated: whenever a canary is installed both subroutine blobs are a
\* multiple of 4 bytes and strictly smaller than the stack, and the canary
\* address and size are multiples of 4.
C22_BlobsStrictlySmallerThanStack ==
    CanaryInstalled =>
        /\ PaintSubroutineSize % 4 = 0 /\ MeasureSubroutineSize % 4 = 0
        /\ PaintSubroutineSize < canary.size /\ MeasureSubroutineSize < canary.size
        /\ canary.addr % 4 = 0 /\ canary.size % 4 = 0

\* C22 amended: whenever a canary is installed both subroutine blobs are a
\* multiple of 4 bytes and at most as large as the stack, and the canary address
\* and size are multiples of 4.
C22_BlobsFitInStack ==
    CanaryInstalled =>
        /\ PaintSubroutineSize % 4 = 0 /\ MeasureSubroutineSize % 4 = 0
        /\ PaintSubroutineSize <= canary.size /\ MeasureSubroutineSize <= canary.size
        /\ canary.addr % 4 = 0 /\ canary.size % 4 = 0

\* a canary is installed on a stack exactly as large as the measure subroutine
C22_Witness ==
    /\ pc = "cn_painted"
    /\ CanaryInstalled
    /\ canary.size = MeasureSubroutineSize

\* the first bytes of the canary, which the measure subroutine will occupy
SubroutineArea == canary.addr .. (canary.addr + MeasureSubroutineSize - 1)

\* C23: the measurement returns the lowest address of [addr, addr + size) whose
\* byte differs from 0xAA, and none when all are equal; a mismatch within the
\* first 20 bytes is found by the host and the subroutine is not placed,
\* otherwise the subroutine is placed and its word is refined to the lowest
\* mismatching byte.
C23_MeasureReturnsLowestTouched ==
    [][ (pc = "cn_painted" /\ pc' = "cn_measured") =>
            LET touched == StackTouched(mem)
            IN  /\ touched_address' = (IF touched = {} THEN 0 ELSE Lowest(touched))
                /\ (touched \cap SubroutineArea # {}) => mem' = mem
                /\ (touched \cap SubroutineArea = {}) => mem' = mem \cup SubroutineArea ]_vars

\* the on-target scan found a word whose lowest mismatching byte is not its first
C23_Witness ==
    /\ pc = "cn_measured"
    /\ touched_address >= canary.addr + MeasureSubroutineSize
    /\ touched_address % 4 # 0
    /\ SubroutineArea \subseteq mem

\* the addresses the target stores to while the paint subroutine runs on cn
TargetPaintWrites(cn) ==
    Ram \ PaintLoop(Ram, cn.addr + PaintSubroutineSize, cn.addr + cn.size)

\* C24: while the paint subroutine executes the target writes only words inside
\* [addr + 12, addr + size): not its own 12 bytes and no word at or beyond
\* addr + size, so painting modifies no RAM outside [addr, addr + size).
C24_PaintStaysInsideCanary ==
    [][ (pc = "cn_prepared" /\ pc' = "cn_painted") =>
            /\ TargetPaintWrites(canary) \subseteq
                   ((canary.addr + PaintSubroutineSize) .. (canary.addr + canary.size - 1))
            /\ \A a \in Ram \ (canary.addr .. (canary.addr + canary.size - 1)) :
                   (a \in mem') <=> (a \in mem) ]_vars

\* the place of a probe operation in the documented order of a run
OpRank(op) ==
    CASE op \in {"attach"} -> 0
      [] op \in {"flash"} -> 1
      [] op \in {"reset"} -> 2
      [] op \in {"paint"} -> 3
      [] op \in {"set_rtt_to_blocking", "set_hw_breakpoint"} -> 4
      [] op \in {"run"} -> 5
      [] op \in {"rtt_attach", "rtt_read", "rtt_read_err", "core_halted", "halt"} -> 6
      [] op \in {"measure"} -> 7
      [] op \in {"unwind"} -> 8
      [] OTHER -> 9

\* reset_and_halt is issued first, to sample SP and PC, and last
RankAt(i) ==
    IF ops[i] = "reset_and_halt"
    THEN (IF i = 1 THEN 2 ELSE 9)
    ELSE OpRank(ops[i])

OpsInDocumentedOrder ==
    \A i, j \in 1..Len(ops) : i < j => RankAt(i) <= RankAt(j)

\* the operations after which the firmware executes
ResumingOps == {"reset", "set_rtt_to_blocking", "run"}

MeasuredOnceAfterLoop ==
    /\ Cardinality({ i \in 1..Len(ops) : ops[i] = "measure" }) <= 1
    /\ "measure" \in Range(ops) =>
           pc \notin {"get_stack", "install", "check_measure", "start_program",
                      "extract_setup", "attach", "check_defmt", "loop_check",
                      "loop_read", "loop_halt", "after_loop", "sig_halt", "measure"}

\* C25: the probe operations occur in the order reset-and-halt, canary paint,
\* breakpoint and RTT instrumentation, resume, poll, canary measure, unwind,
\* final reset-and-halt; the paint completes before the firmware is first
\* resumed; the canary is measured at most once and only after the poll loop.
C25_OperationsInOrder ==
    /\ OpsInDocumentedOrder
    /\ \A i, j \in 1..Len(ops) :
           (ops[i] \in ResumingOps /\ ops[j] = "paint") => j < i
    /\ MeasuredOnceAfterLoop

\* the step in which the controller resumes the core into the Running state
ResumesIntoRunning == pc = "sp_run" /\ pc' = "sp_started"

\* C26: when the controller resumes the core into the Running state, a hardware
\* breakpoint is installed at the hard-fault handler address with the Thumb bit
\* cleared, none remains at main, and with an RTT control block in the ELF the
\* mode bits of the up-channel flags word equal 2.
C26_InstrumentedWhenResumed ==
    [][ ResumesIntoRunning =>
            /\ (start_cfg.hard_fault - (start_cfg.hard_fault % 2)) \in breakpoints
            /\ \A b \in breakpoints : b % 2 = 0
            /\ start_cfg.main \notin breakpoints
            /\ elf_rtt => target_words[FlagsAddress(start_cfg)] % 4 = MODE_BLOCK_IF_FULL
      ]_vars

\* the core was resumed with RTT in the ELF, an odd HardFault vector entry and a
\* flags word that was not in blocking mode before
C26_Witness ==
    /\ pc = "sp_started"
    /\ core = "running"
    /\ elf_rtt
    /\ start_cfg.hard_fault % 2 = 1
    /\ channel_flags % 4 # MODE_BLOCK_IF_FULL
    /\ channel_flags >= 4

\* C27: the mode switch writes exactly one word, at control block + 44: its low
\* two bits are 0b10, its other bits are those of the word read from that
\* address just before, and it is written only with the core halted after the
\* breakpoint at main was set and the core run.
C27_ModeSwitchWritesOneWord ==
    [][ /\ word_writes' # word_writes =>
            /\ word_writes = << >>
            /\ word_writes' = << start_cfg.rtt + OFFSET >>
            /\ target_words'[start_cfg.rtt + OFFSET] % 4 = 2
            /\ target_words'[start_cfg.rtt + OFFSET] \div 4 = channel_flags \div 4
            /\ channel_flags = target_words[start_cfg.rtt + OFFSET]
            /\ \A a \in FlagWords(start_cfg) \ {start_cfg.rtt + OFFSET} :
                   target_words'[a] = target_words[a]
            /\ core = "halted"
            /\ start_cfg.main \in breakpoints
            /\ "run" \in Range(ops)
        /\ (target_words' # target_words /\ core = "halted") => word_writes' # word_writes
      ]_vars

\* the flags word was rewritten with its upper bits kept
C27_Witness ==
    /\ pc = "rtt_clear"
    /\ word_writes = << start_cfg.rtt + OFFSET >>
    /\ channel_flags >= 4
    /\ channel_flags % 4 # 2
    /\ target_words[start_cfg.rtt + OFFSET] = channel_flags - (channel_flags % 4) + 2

\* C28: the hardware breakpoint at main is cleared on every exit path of
\* set_rtt_to_blocking, failures included.
C28_MainBreakpointAlwaysCleared ==
    (pc \notin RttPcs) => start_cfg.main \notin breakpoints

\* the positions of an iteration at which the guard on the session is alive
IterationPcs == {"loop_read", "loop_halt"}

\* C29: the poll loop holds the session lock only within one iteration: it is
\* acquired when an iteration starts and released before the next one begins,
\* so the lock is free whenever the loop is between two iterations.
C29_LockHeldOnlyWithinIteration ==
    [][ /\ (pc = "loop_check" /\ pc' = "loop_read") => (lock = "free" /\ lock' = "main")
        /\ (pc \in IterationPcs /\ pc' \notin IterationPcs) => lock' = "free"
        /\ pc' \in IterationPcs => lock' = "main"
        /\ pc' = "loop_check" => lock' = "free" ]_vars

\* a later iteration holds the lock again after an earlier one released it
C29_Witness ==
    /\ pc = "loop_read"
    /\ lock = "main"
    /\ Len(polls) >= 1

LoopRank(p) ==
    CASE p = "loop_read" -> 1
      [] p = "loop_halt" -> 2
      [] p = "loop_check" -> 3
      [] OTHER -> 4

\* C30: the SIGINT flag is read only at the top of an iteration: once it is set
\* the loop at most finishes the iteration in progress, one drain and one halt
\* check, and leaves without starting another; inside an iteration the loop is
\* left only by the break on an RTT error or on two halted polls.
C30_FlagEndsLoopAtTop ==
    [][ /\ (exit /\ pc \in PollLoopPcs) => LoopRank(pc') >= LoopRank(pc)
        /\ (exit /\ pc = "loop_check" /\ pc' # pc) => pc' \in {"after_loop", "killed"}
        /\ (pc = "loop_read" /\ pc' = "after_loop") => "rtt_read_err" \in Range(ops')
        /\ (pc = "loop_halt" /\ pc' = "after_loop") =>
               PollBreak(core = "halted", was_halted, opts.gdb_on_start) ]_vars

\* the flag is set and the iteration in progress goes on to its halt check
C30_Witness ==
    /\ exit
    /\ pc = "loop_halt"
    /\ lock = "main"

----------------------------------------------------------------------------
(* C31..C40 *)

\* the step with which diagnosis starts: the session is locked for the canary
\* measurement and backtrace::print
DiagnosisStarts == pc = "measure" /\ pc' = "print_unwind"

\* C32: whenever diagnosis starts the core is halted: every way of leaving the
\* poll loop, the exit on an RTT read error included, leaves the core halted or
\* is followed by a halt before the diagnosis.
C32_CoreHaltedWhenDiagnosisStarts ==
    [][ DiagnosisStarts => core = "halted" ]_vars

\* the step writes a canary subroutine to the stack and starts it
SubroutineStarts ==
    /\ ops' # ops
    /\ ops'[Len(ops')] \in {"paint", "measure"}

\* C33: whenever a canary subroutine, paint or measure, is written to the stack
\* and started, the core is halted; no controller operation resumes the core
\* between the reset-and-halt that samples SP and PC and the installation.
C33_CoreHaltedWhenSubroutineStarts ==
    [][ /\ SubroutineStarts => core = "halted"
        /\ (pc = "install" /\ SubroutineStarts) => LastOp = "reset_and_halt" ]_vars

\* the poll loop was left by the break on two consecutive halted polls
LeftOnTwoHalts == TwoHalted /\ ~opts.gdb_on_start /\ ~RttReadFailed

\* C34: halted_due_to_signal is true only if the poll loop was left because it
\* observed the SIGINT flag: a run whose loop exited on two consecutive halted
\* polls issues no extra core.halt and does not report the signal, whatever the
\* interleaving of the signal handler.
C34_SignalReportedOnlyIfLoopSawFlag ==
    [][ (pc = "sig_halt" /\ pc' # pc /\ LeftOnTwoHalts) =>
            /\ halted_due_to_signal' = FALSE
            /\ ops' = ops ]_vars

\* C35: when the poll loop exits on two consecutive halted polls, every byte
\* the firmware wrote to the up-channel before it halted has been read and
\* forwarded and none is left in the ring buffer, for every ring-buffer size
\* and every amount of pending data.
C35_RingDrainedAtLoopExit ==
    pc = "dr_done" =>
        /\ ring.data = << >>
        /\ rtt_bytes = fw_written
        /\ stdout = fw_written

\* C36: when up-channel 0 is named "defmt" and the ELF has no defmt table the
\* run aborts before any log byte is forwarded, for every option combination
\* (--no-flash included): the poll loop is never entered with such a channel,
\* and the bytes of a "defmt" channel are never written raw to stdout.
C36_DefmtWithoutTableAborts ==
    /\ (log_cfg.defmt_channel /\ ~log_cfg.defmt_table) =>
            /\ pc \in {"lg_setup", "error"}
            /\ received = << >>
            /\ stdout = << >>
    /\ log_cfg.defmt_channel => stdout = << >>

\* C37: the measure subroutine is written to [addr, addr + 20) only when all
\* 20 bytes there still equal 0xAA: a measurement changes no byte outside
\* that window and no byte that differs from 0xAA, so every byte the program
\* touched is the same after the measurement as before it.
C37_MeasureWritesOnlyUntouchedBytes ==
    [][ (pc = "cn_painted" /\ pc' = "cn_measured") =>
            /\ mem \subseteq mem'
            /\ (mem' \ mem) \subseteq SubroutineArea
            /\ (mem' # mem) => (mem \cap SubroutineArea = {}) ]_vars

\* the program touched part of the window and the subroutine was not placed
C37_Witness ==
    /\ pc = "cn_measured"
    /\ mem \cap SubroutineArea # {}
    /\ ~(SubroutineArea \subseteq mem)
    /\ touched_address \in SubroutineArea

\* start_program returns Ok
StartProgramReturns == pc = "start_program" /\ pc' = "extract_setup"

\* C38: the runner starts the core only if no GDB server was spawned at
\* startup: when start_program spawned a GDB thread it returns with the core
\* halted and without the final core.run, and the poll loop then never leaves
\* on two halted polls.
C38_CoreNotStartedUnderGdb ==
    [][ /\ (StartProgramReturns /\ ops'[Len(ops')] = "run") => gdb' = {}
        /\ (StartProgramReturns /\ gdb' # {}) =>
                /\ core' = "halted"
                /\ ops'[Len(ops')] # "run"
        /\ (pc = "loop_halt" /\ pc' = "after_loop") => ~opts.gdb_on_start ]_vars

\* positions from which the next step of the main thread locks the session
AcquirePcs == {"start_program", "extract_setup", "loop_check", "sig_halt", "measure", "branch"}

\* C39: the session mutex is deadlock-free: the main thread never attempts to
\* lock the session while it holds a guard, it holds none while it sleeps
\* waiting for SIGINT in the GDB-on-fault branch, and whenever it holds the
\* lock while a GDB worker exists it releases it, so the worker's acquisition
\* eventually succeeds.
C39_SessionLockDeadlockFree ==
    /\ [](pc \in AcquirePcs => lock = "free")
    /\ [](pc = "gdb_wait" => lock = "free")
    /\ (gdb # {} /\ lock = "main") ~> (lock = "free" \/ pc \in TerminalPcs)

\* the main thread holds the session while a GDB worker is waiting for it
C39_Witness ==
    /\ gdb # {}
    /\ lock = "main"
    /\ pc = "loop_halt"
    /\ Len(polls) >= 1

\* stdin is at its end and the last read returned 0 bytes
InputExhausted == stdin = << >> /\ num_read = 0

\* C40: defmt-print terminates once its input is exhausted: after a read that
\* returned 0 bytes, when decode_loop has logged every complete frame and
\* returns, the main loop ends and the process exits instead of reading again.
C40_PrintExitsAtEndOfInput ==
    [][ (InputExhausted /\ pc = "pd_decode" /\ pc' \notin {"pd_decode", "pd_error"}) =>
            pc' = "pd_exit" ]_vars

====
